---- MODULE Spec2Model ----
(***************************************************************************)
(* Meta-analysis statistics engine of automated-sr                         *)
(* (src/src/automated_sr/analysis/statistics.py).                          *)
(*                                                                         *)
(* The Python code computes in binary floating point: every +, -, *, /,    *)
(* sqrt, log and exp rounds its exact result to the nearest representable  *)
(* number (ties to even).  The model keeps that rounding and narrows only  *)
(* the significand: a float is m * 2^e with PrecBits significant bits and  *)
(* an unbounded exponent (the inputs are chosen so that the code neither   *)
(* overflows nor underflows).  NaN is kept because np.sqrt and np.log      *)
(* return it (with a warning, not an exception) for negative arguments.    *)
(***************************************************************************)
EXTENDS Integers, Sequences, FiniteSets, TLC

\* Number of significant bits of a float (53 in the program).
PrecBits == 5

\* Fractional bits of the fixed-point evaluation of log and exp below.
FracBits == 14

\* Largest collection that is pooled.
MaxStudies == 3

RECURSIVE Pow2(_)
Pow2(k) == IF k <= 0 THEN 1 ELSE 2 * Pow2(k - 1)

Abs(x) == IF x < 0 THEN -x ELSE x

\* Significands of non-zero floats lie in MantMin .. MantMax - 1.
MantMin == Pow2(PrecBits - 1)
MantMax == Pow2(PrecBits)

----------------------------------------------------------------------------
(* Floating-point values.                                                  *)

\* A finite float m * 2^e: m = 0 /\ e = 0, or MantMin <= |m| < MantMax.
Flt(m, e) == [nan |-> FALSE, m |-> m, e |-> e]

NaN == [nan |-> TRUE, m |-> 0, e |-> 0]

Zero == Flt(0, 0)

\* Nearest float to (a/d) * 2^e for integers a >= 0, d > 0: round to nearest, ties to even.
RECURSIVE RoundPos(_, _, _)
RoundPos(a, d, e) ==
    IF a = 0 THEN Zero
    ELSE IF a >= d * MantMax THEN RoundPos(a, 2 * d, e + 1)
    ELSE IF a < d * MantMin THEN RoundPos(2 * a, d, e - 1)
    ELSE LET q == a \div d
             r == a % d
             m == IF 2 * r > d \/ (2 * r = d /\ q % 2 = 1) THEN q + 1 ELSE q
         IN  IF m = MantMax THEN Flt(MantMin, e + 1) ELSE Flt(m, e)

FNeg(x) == IF x.nan THEN NaN ELSE Flt(-x.m, x.e)

\* Nearest float to (n/d) * 2^e for any integer n and d > 0.
Round(n, d, e) == IF n < 0 THEN FNeg(RoundPos(-n, d, e)) ELSE RoundPos(n, d, e)

\* Conversion of a Python int (or of a decimal literal n/d) to float.
FromInt(n) == Round(n, 1, 0)
FromRat(n, d) == Round(n, d, 0)

\* x < y, x <= y, x > y on floats; every comparison with NaN is false.
FSign(x) == IF x.m > 0 THEN 1 ELSE IF x.m < 0 THEN -1 ELSE 0

PosLess(x, y) == x.e < y.e \/ (x.e = y.e /\ x.m < y.m)

FLt(x, y) ==
    /\ ~x.nan /\ ~y.nan
    /\ \/ FSign(x) < FSign(y)
       \/ FSign(x) = 1 /\ FSign(y) = 1 /\ PosLess(x, y)
       \/ FSign(x) = -1 /\ FSign(y) = -1 /\ PosLess(FNeg(y), FNeg(x))

FEq(x, y) == ~x.nan /\ ~y.nan /\ x = y
FLe(x, y) == FLt(x, y) \/ FEq(x, y)
FGt(x, y) == FLt(y, x)
FGe(x, y) == FLe(y, x)

\* x + y, correctly rounded.
FAdd(x, y) ==
    IF x.nan \/ y.nan THEN NaN
    ELSE IF x.m = 0 THEN y
    ELSE IF y.m = 0 THEN x
    ELSE LET hi == IF x.e >= y.e THEN x ELSE y
             lo == IF x.e >= y.e THEN y ELSE x
             sh == hi.e - lo.e
         IN  IF sh >= PrecBits + 2 THEN hi
             ELSE Round(hi.m * Pow2(sh) + lo.m, 1, lo.e)

FSub(x, y) == FAdd(x, FNeg(y))

\* x * y, correctly rounded.
FMul(x, y) ==
    IF x.nan \/ y.nan THEN NaN
    ELSE Round(x.m * y.m, 1, x.e + y.e)

\* x / y for y # 0, correctly rounded (division by zero is raised by the caller).
FDiv(x, y) ==
    IF x.nan \/ y.nan THEN NaN
    ELSE IF y.m < 0 THEN Round(-x.m, -y.m, x.e - y.e)
    ELSE Round(x.m, y.m, x.e - y.e)

\* x ** 2.
FSquare(x) == FMul(x, x)

\* np.sqrt: NaN for a negative argument, else the correctly rounded root.
FSqrt(x) ==
    IF x.nan \/ x.m < 0 THEN NaN
    ELSE IF x.m = 0 THEN Zero
    ELSE LET t  == x.e - PrecBits + 1
             e2 == IF t % 2 = 0 THEN t \div 2 ELSE (t - 1) \div 2
             v  == x.m * Pow2(x.e - 2 * e2)
             r  == CHOOSE s \in MantMin .. MantMax :
                      (2 * s - 1) * (2 * s - 1) <= 4 * v /\ 4 * v < (2 * s + 1) * (2 * s + 1)
         IN  Round(r, 1, e2)

\* Fixed-point helpers of the log/exp evaluation: One is 1.0, Ln2 is ln 2.
One == Pow2(FracBits)

\* a / b rounded to the nearest integer, for b > 0.
RDiv(a, b) == (2 * a + b) \div (2 * b)

Ln2 == RDiv(22713 * One, 32768)

\* k * ln 2 in fixed point, rounded once (ln 2 = 22713 / 2^15 to seven digits).
KLn2(k) == RDiv(k * 22713 * Pow2(FracBits - 15), Pow2(15 - FracBits))

\* The finite float x as a fixed-point number.
ToFixed(x) == IF x.e + FracBits >= 0 THEN x.m * Pow2(x.e + FracBits)
              ELSE RDiv(x.m, Pow2(-(x.e + FracBits)))

\* exp(r) in fixed point for |r| <= ln(2)/2, by the Taylor polynomial of degree 6.
RECURSIVE ExpPoly(_, _, _)
ExpPoly(r, i, t) == IF i = 0 THEN t ELSE ExpPoly(r, i - 1, One + RDiv(r * t, i * One))

\* np.exp: exp(x) = 2^k * exp(r) with x = k * ln 2 + r.
FExp(x) ==
    IF x.nan THEN NaN
    ELSE LET xf == ToFixed(x)
             k  == RDiv(xf, Ln2)
             r  == xf - KLn2(k)
         IN  Round(ExpPoly(r, 6, One), One, k)

\* np.log: NaN for a negative argument, else k * ln 2 + 2 * atanh((f - 1) / (f + 1))
\* with x = f * 2^k and f in [0.71, 1.42).  (log(0) = -inf does not occur in the model.)
FLog(x) ==
    IF x.nan \/ x.m <= 0 THEN NaN
    ELSE LET big == x.m * x.m > 2 * Pow2(2 * PrecBits - 2)
             d   == IF big THEN MantMax ELSE MantMin
             k   == IF big THEN x.e + PrecBits ELSE x.e + PrecBits - 1
             s   == RDiv((x.m - d) * One, x.m + d)
             s2  == RDiv(s * s, One)
             t7  == RDiv(One, 7)
             t5  == RDiv(One, 5) + RDiv(s2 * t7, One)
             t3  == RDiv(One, 3) + RDiv(s2 * t5, One)
             t1  == One + RDiv(s2 * t3, One)
         IN  Round(KLn2(k) + RDiv(2 * s * t1, One), One, 0)

----------------------------------------------------------------------------
(* Data model.                                                             *)

EffectMeasure == {"MD", "SMD", "OR", "RR"}

PoolingMethod == {"fixed", "random"}

\* Optional values: None, or Some(x).
None == <<>>
Some(x) == <<x>>

\* The literals 1.96 and 100 as floats.
Z95 == FromRat(196, 100)
Hundred == FromInt(100)
FOne == FromInt(1)

\* EffectSize as built by the callers: weight is None until a pooling call assigns it.
EffectSize(effect, se, ci_lower, ci_upper) ==
    [effect |-> effect, se |-> se, ci_lower |-> ci_lower, ci_upper |-> ci_upper, weight |-> None]

\* Result of a call: an exception, or a returned value.
Raise(exc, msg) == [status |-> "raise", exc |-> exc, msg |-> msg]
Return(v) == [status |-> "return", value |-> v]

----------------------------------------------------------------------------
(* Effect calculators.  The int arguments stay integers until the code     *)
(* mixes them with a float; a Python division by an int or float zero      *)
(* raises ZeroDivisionError, np.sqrt and np.log of a negative return NaN.  *)

Half == FromRat(1, 2)

DivByZero == Raise("ZeroDivisionError", "division by zero")

\* Mutant: the means are added instead of subtracted.
calculate_mean_differenceMut(mean1, sd1, n1, mean2, sd2, n2) ==
    IF n1 = 0 \/ n2 = 0 THEN DivByZero
    ELSE LET md == FAdd(mean1, mean2)
             se == FSqrt(FAdd(FDiv(FSquare(sd1), FromInt(n1)), FDiv(FSquare(sd2), FromInt(n2))))
         IN  Return(EffectSize(md, se, FSub(md, FMul(Z95, se)), FAdd(md, FMul(Z95, se))))

\* MetaAnalysis.calculate_mean_difference
calculate_mean_difference(mean1, sd1, n1, mean2, sd2, n2) ==
    IF n1 = 0 \/ n2 = 0 THEN DivByZero
    ELSE LET md == FSub(mean1, mean2)
             se == FSqrt(FAdd(FDiv(FSquare(sd1), FromInt(n1)), FDiv(FSquare(sd2), FromInt(n2))))
         IN  Return(EffectSize(md, se, FSub(md, FMul(Z95, se)), FAdd(md, FMul(Z95, se))))

\* Mutant: the correction is added, j = 1 + 3 / (4 * (n1 + n2 - 2) - 1).
HedgesJMut(n1, n2) == FAdd(FOne, FDiv(FromInt(3), FromInt(4 * (n1 + n2 - 2) - 1)))

\* Hedges' correction factor j = 1 - 3 / (4 * (n1 + n2 - 2) - 1).
HedgesJ(n1, n2) == FSub(FOne, FDiv(FromInt(3), FromInt(4 * (n1 + n2 - 2) - 1)))

\* Pooled standard deviation, for n1 + n2 # 2.
PooledSD(sd1, n1, sd2, n2) ==
    FSqrt(FDiv(FAdd(FMul(FromInt(n1 - 1), FSquare(sd1)), FMul(FromInt(n2 - 1), FSquare(sd2))),
               FromInt(n1 + n2 - 2)))

\* MetaAnalysis.calculate_standardized_mean_difference
calculate_standardized_mean_difference(mean1, sd1, n1, mean2, sd2, n2) ==
    IF n1 + n2 - 2 = 0 THEN DivByZero
    ELSE IF n1 * n2 = 0 THEN DivByZero
    ELSE LET pooled_sd == PooledSD(sd1, n1, sd2, n2)
             d  == FDiv(FSub(mean1, mean2), pooled_sd)
             g  == FMul(d, HedgesJ(n1, n2))
             se == FSqrt(FAdd(FDiv(FromInt(n1 + n2), FromInt(n1 * n2)),
                              FDiv(FSquare(g), FromInt(2 * (n1 + n2)))))
         IN  Return(EffectSize(g, se, FSub(g, FMul(Z95, se)), FAdd(g, FMul(Z95, se))))

\* Mutant: 0.5 is added only when some cell of the table is zero.
ORCellsMut(events1, total1, events2, total2) ==
    LET k == IF events1 = 0 \/ total1 - events1 = 0 \/ events2 = 0 \/ total2 - events2 = 0
             THEN Half ELSE Zero
    IN  [a |-> FAdd(FromInt(events1), k),
         b |-> FAdd(FromInt(total1 - events1), k),
         c |-> FAdd(FromInt(events2), k),
         d |-> FAdd(FromInt(total2 - events2), k)]

\* The four cells of the 2x2 table, each with 0.5 added.
ORCells(events1, total1, events2, total2) ==
    [a |-> FAdd(FromInt(events1), Half),
     b |-> FAdd(FromInt(total1 - events1), Half),
     c |-> FAdd(FromInt(events2), Half),
     d |-> FAdd(FromInt(total2 - events2), Half)]

\* MetaAnalysis.calculate_odds_ratio
calculate_odds_ratio(events1, total1, events2, total2) ==
    LET t      == ORCells(events1, total1, events2, total2)
        log_or == FLog(FDiv(FMul(t.a, t.d), FMul(t.b, t.c)))
        se     == FSqrt(FAdd(FAdd(FAdd(FDiv(FOne, t.a), FDiv(FOne, t.b)), FDiv(FOne, t.c)),
                             FDiv(FOne, t.d)))
    IN  Return(EffectSize(FExp(log_or), se,
                          FExp(FSub(log_or, FMul(Z95, se))),
                          FExp(FAdd(log_or, FMul(Z95, se)))))

\* Mutant: an all-event arm (events = total) is not corrected.
RRNeedsCorrectionMut(events, total) == events = 0

\* Continuity correction of one arm of the risk ratio.
RRNeedsCorrection(events, total) == events = 0 \/ events = total
RREvents(events, total) ==
    IF RRNeedsCorrection(events, total) THEN FAdd(FromInt(events), Half) ELSE FromInt(events)

\* Mutant: the corrected arm keeps its total.
RRTotalMut(events, total) == total

RRTotal(events, total) == IF RRNeedsCorrection(events, total) THEN total + 1 ELSE total

\* MetaAnalysis.calculate_risk_ratio
calculate_risk_ratio(events1, total1, events2, total2) ==
    IF RRTotal(events1, total1) = 0 \/ RRTotal(events2, total2) = 0 THEN DivByZero
    ELSE LET e1 == RREvents(events1, total1)
             e2 == RREvents(events2, total2)
             p1 == FDiv(e1, FromInt(RRTotal(events1, total1)))
             p2 == FDiv(e2, FromInt(RRTotal(events2, total2)))
             log_rr == FLog(FDiv(p1, p2))
             se == FSqrt(FAdd(FDiv(FSub(FOne, p1), e1), FDiv(FSub(FOne, p2), e2)))
         IN  Return(EffectSize(FExp(log_rr), se,
                               FExp(FSub(log_rr, FMul(Z95, se))),
                               FExp(FAdd(log_rr, FMul(Z95, se)))))

----------------------------------------------------------------------------
(* Pooling.                                                                *)

\* sum(xs): left to right, starting from the int 0.
RECURSIVE FSumUpTo(_, _)
FSumUpTo(xs, n) == IF n = 0 THEN Zero ELSE FAdd(FSumUpTo(xs, n - 1), xs[n])

FSum(xs) == FSumUpTo(xs, Len(xs))

\* Mutant: a study with effect <= 0 enters the log scale with its effect unchanged.
EffectValuesMut(effects, log_scale) ==
    [i \in 1 .. Len(effects) |->
        IF log_scale
        THEN (IF FGt(effects[i].effect, Zero) THEN FLog(effects[i].effect)
              ELSE effects[i].effect)
        ELSE effects[i].effect]

\* Working value of each study: log(effect) if effect > 0 else 0 on the log scale.
EffectValues(effects, log_scale) ==
    [i \in 1 .. Len(effects) |->
        IF log_scale
        THEN (IF FGt(effects[i].effect, Zero) THEN FLog(effects[i].effect) ELSE Zero)
        ELSE effects[i].effect]

\* 1 / se**2 divides by zero exactly when se**2 is 0.0 .
ZeroVariance(effects) == \E i \in 1 .. Len(effects) : FSquare(effects[i].se).m = 0

\* Mutant: a study that already carries a weight is pooled with that weight.
InverseVarianceWeightsMut(effects) ==
    [i \in 1 .. Len(effects) |->
        IF effects[i].weight = None THEN FDiv(FOne, FSquare(effects[i].se))
        ELSE effects[i].weight[1]]

\* Inverse-variance weights.
InverseVarianceWeights(effects) ==
    [i \in 1 .. Len(effects) |-> FDiv(FOne, FSquare(effects[i].se))]

\* sum(w * e for w, e in zip(weights, values)).
WeightedSum(weights, values) ==
    FSum([i \in 1 .. Len(weights) |-> FMul(weights[i], values[i])])

\* Cochran's Q: sum(w * (e - pooled) ** 2).
CochranQ(weights, values, pooled) ==
    FSum([i \in 1 .. Len(weights) |-> FMul(weights[i], FSquare(FSub(values[i], pooled)))])

\* max(0, x) as Python evaluates it: x if x > 0, else 0.
Max0(x) == IF FGt(x, Zero) THEN x ELSE Zero

\* Mutant: the clamp max(0, .) is missing.
ISquaredMut(q, df) ==
    IF FGt(q, Zero) THEN FMul(FDiv(FSub(q, FromInt(df)), q), Hundred) ELSE Zero

\* i_squared = max(0, (q - df) / q * 100) if q > 0 else 0.
ISquared(q, df) ==
    IF FGt(q, Zero) THEN Max0(FMul(FDiv(FSub(q, FromInt(df)), q), Hundred)) ELSE Zero

\* Back-transformation of the pooled value and its CI.
BackTransform(pooled, se, log_scale) ==
    LET half == FMul(Z95, se)
    IN  IF log_scale
        THEN [effect   |-> FExp(pooled),
              ci_lower |-> FExp(FSub(pooled, half)),
              ci_upper |-> FExp(FAdd(pooled, half))]
        ELSE [effect   |-> pooled,
              ci_lower |-> FSub(pooled, half),
              ci_upper |-> FAdd(pooled, half)]

\* Mutant: the weights are left as fractions of 1.
PercentagesMut(weights, total_weight) ==
    [i \in 1 .. Len(weights) |-> FDiv(weights[i], total_weight)]

\* weight / total_weight * 100 for every study.
Percentages(weights, total_weight) ==
    [i \in 1 .. Len(weights) |-> FMul(FDiv(weights[i], total_weight), Hundred)]

\* Mutant: a weight is written only where none is set yet.
AssignWeightsMut(effects, pct) ==
    [i \in 1 .. Len(effects) |->
        IF effects[i].weight = None THEN [effects[i] EXCEPT !.weight = Some(pct[i])]
        ELSE effects[i]]

\* The effects with the given percentage weights written on them.
AssignWeights(effects, pct) ==
    [i \in 1 .. Len(effects) |-> [effects[i] EXCEPT !.weight = Some(pct[i])]]

\* Mutant: the emptiness check is missing.
NoEffectsMut(effects) == FALSE

\* if len(effects) == 0: raise ValueError("No effects to pool")
NoEffects(effects) == Len(effects) = 0

EmptyPoolError == Raise("ValueError", "No effects to pool")

FloatDivisionByZero == Raise("ZeroDivisionError", "float division by zero")

\* The PooledEffect that fixed_effects returns.
\* (p_value is a function of z_score alone and is read by no operation; it is left out.)
FixedPooledEffect(bt, se, z, q, df, n) ==
    [effect      |-> bt.effect,
     se          |-> se,
     ci_lower    |-> bt.ci_lower,
     ci_upper    |-> bt.ci_upper,
     z_score     |-> z,
     i_squared   |-> ISquared(q, df),
     tau_squared |-> None,
     q_statistic |-> q,
     df          |-> df,
     method      |-> "fixed",
     n_studies   |-> n]

\* fixed_effects from the pooled value on: se, Q, df, I^2, z, the back-transformation
\* and the weights written on the studies.
FixedFromPooled(effects, log_scale, effect_values, weights, total_weight, pooled) ==
    LET se == FSqrt(FDiv(FOne, total_weight))
    IN  [out |-> Return(FixedPooledEffect(BackTransform(pooled, se, log_scale), se,
                                          FDiv(pooled, se),
                                          CochranQ(weights, effect_values, pooled),
                                          Len(effects) - 1, Len(effects))),
         effects |-> AssignWeights(effects, Percentages(weights, total_weight))]

\* fixed_effects from the working values and the inverse-variance weights on.
FixedFromWeights(effects, log_scale, effect_values, weights) ==
    FixedFromPooled(effects, log_scale, effect_values, weights, FSum(weights),
                    FDiv(WeightedSum(weights, effect_values), FSum(weights)))

\* Mutant: each weight is written as soon as its study is reached, so the studies are
\* already weighted when the division by a zero variance fails.
fixed_effectsMut(effects, log_scale) ==
    IF NoEffects(effects)
    THEN [out |-> EmptyPoolError, effects |-> effects]
    ELSE IF ZeroVariance(effects) \/ FSum(InverseVarianceWeights(effects)).m = 0
    THEN [out |-> FloatDivisionByZero,
          effects |-> AssignWeights(effects, [i \in 1 .. Len(effects) |-> Hundred])]
    ELSE FixedFromWeights(effects, log_scale, EffectValues(effects, log_scale),
                          InverseVarianceWeights(effects))

\* MetaAnalysis.fixed_effects: the outcome of the call and the list as the call leaves it.
fixed_effects(effects, log_scale) ==
    IF NoEffects(effects)
    THEN [out |-> EmptyPoolError, effects |-> effects]
    ELSE IF ZeroVariance(effects) \/ FSum(InverseVarianceWeights(effects)).m = 0
    THEN [out |-> FloatDivisionByZero, effects |-> effects]
    ELSE FixedFromWeights(effects, log_scale, EffectValues(effects, log_scale),
                          InverseVarianceWeights(effects))

\* c = sum(w) - sum(w**2) / sum(w) over the fixed-effect weights.
DLScale(fe_weights) ==
    FSub(FSum(fe_weights),
         FDiv(FSum([i \in 1 .. Len(fe_weights) |-> FSquare(fe_weights[i])]), FSum(fe_weights)))

\* Mutant: df is not subtracted from Q.
TauSquaredMut(q, df, c) ==
    IF FGt(c, Zero) THEN Max0(FDiv(q, c)) ELSE Zero

\* tau_sq = max(0, (Q - df) / c) if c > 0 else 0.
TauSquared(q, df, c) ==
    IF FGt(c, Zero) THEN Max0(FDiv(FSub(q, FromInt(df)), c)) ELSE Zero

\* Mutant: operator precedence slip, 1 / se**2 + tau_sq.
RandomEffectsWeightsMut(effects, tau_sq) ==
    [i \in 1 .. Len(effects) |-> FAdd(FDiv(FOne, FSquare(effects[i].se)), tau_sq)]

\* Random-effects weights 1 / (se**2 + tau_sq).
RandomEffectsWeights(effects, tau_sq) ==
    [i \in 1 .. Len(effects) |-> FDiv(FOne, FAdd(FSquare(effects[i].se), tau_sq))]

\* Mutant: df is taken as the number of studies instead of the fixed-effect df.
RandomPooledEffectMut(fixed, bt, se, z, tau_sq, n) ==
    [effect      |-> bt.effect,
     se          |-> se,
     ci_lower    |-> bt.ci_lower,
     ci_upper    |-> bt.ci_upper,
     z_score     |-> z,
     i_squared   |-> fixed.i_squared,
     tau_squared |-> Some(tau_sq),
     q_statistic |-> fixed.q_statistic,
     df          |-> n,
     method      |-> "random",
     n_studies   |-> n]

\* The PooledEffect that random_effects returns: heterogeneity statistics are those
\* of the fixed-effect pass.
RandomPooledEffect(fixed, bt, se, z, tau_sq, n) ==
    [effect      |-> bt.effect,
     se          |-> se,
     ci_lower    |-> bt.ci_lower,
     ci_upper    |-> bt.ci_upper,
     z_score     |-> z,
     i_squared   |-> fixed.i_squared,
     tau_squared |-> Some(tau_sq),
     q_statistic |-> fixed.q_statistic,
     df          |-> fixed.df,
     method      |-> "random",
     n_studies   |-> n]

\* random_effects from the pooled value on.  fixed is what the fixed-effect pass
\* returned and effects the list as that pass left it.
RandomFromPooled(fixed, effects, log_scale, tau_sq, re_weights, total_weight, pooled) ==
    LET se == FSqrt(FDiv(FOne, total_weight))
    IN  [out |-> Return(RandomPooledEffect(fixed, BackTransform(pooled, se, log_scale), se,
                                           FDiv(pooled, se), tau_sq, Len(effects))),
         effects |-> AssignWeights(effects, Percentages(re_weights, total_weight))]

\* random_effects from the random-effects weights on.
RandomFromWeights(fixed, effects, log_scale, effect_values, tau_sq, re_weights) ==
    RandomFromPooled(fixed, effects, log_scale, tau_sq, re_weights, FSum(re_weights),
                     FDiv(WeightedSum(re_weights, effect_values), FSum(re_weights)))

\* random_effects from tau_sq on.
RandomFromTau(fixed, effects, log_scale, tau_sq) ==
    RandomFromWeights(fixed, effects, log_scale, EffectValues(effects, log_scale), tau_sq,
                      RandomEffectsWeights(effects, tau_sq))

\* random_effects after the fixed-effect pass: an exception of the pass propagates.
RandomFromFixed(fixed, log_scale) ==
    IF fixed.out.status = "raise" THEN fixed
    ELSE RandomFromTau(fixed.out.value, fixed.effects, log_scale,
                       TauSquared(fixed.out.value.q_statistic, fixed.out.value.df,
                                  DLScale(InverseVarianceWeights(fixed.effects))))

\* MetaAnalysis.random_effects.
random_effects(effects, log_scale) ==
    IF NoEffects(effects)
    THEN [out |-> EmptyPoolError, effects |-> effects]
    ELSE RandomFromFixed(fixed_effects(effects, log_scale), log_scale)

LogScaleMut(effect_measure) == effect_measure = "OR"

\* log_scale = effect_measure in (OR, RR).
LogScale(effect_measure) == effect_measure \in {"OR", "RR"}

\* An argument the caller leaves out, and the defaults of pool's signature.
Omitted == "omitted"
DefaultMethod == "random"
DefaultEffectMeasure == "MD"
ArgOrDefault(arg, default) == IF arg = Omitted THEN default ELSE arg

\* MetaAnalysis.pool.
pool(effects, method, effect_measure) ==
    IF ArgOrDefault(method, DefaultMethod) = "fixed"
    THEN fixed_effects(effects, LogScale(ArgOrDefault(effect_measure, DefaultEffectMeasure)))
    ELSE random_effects(effects, LogScale(ArgOrDefault(effect_measure, DefaultEffectMeasure)))

----------------------------------------------------------------------------
(* The pooling state machine: a caller builds a collection and pools it,   *)
(* any number of times, with either method.                                *)

\* An EffectSize as cli.py builds it from an extracted effect and standard error,
\* neither of which it checks: ci = effect -/+ 1.96 * se.
MakeEffect(effect, se) ==
    EffectSize(effect, se, FSub(effect, FMul(Z95, se)), FAdd(effect, FMul(Z95, se)))

\* The studies a collection is drawn from: precise and imprecise ones, one with
\* se = 0, one with se < 0 and one with an effect <= 0.
StudyInputs ==
    { MakeEffect(FromInt(5), FromRat(1, 2)),
      MakeEffect(FromRat(7, 4), FromRat(3, 4)),
      MakeEffect(FromInt(-1), FromRat(1, 2)),
      MakeEffect(FromInt(1), FromRat(-1, 2)),
      MakeEffect(FromInt(1), Zero) }

RECURSIVE SeqsUpTo(_, _)
SeqsUpTo(S, n) ==
    IF n = 0 THEN {<<>>}
    ELSE LET shorter == SeqsUpTo(S, n - 1)
         IN  shorter \cup {Append(q, x) : q \in {t \in shorter : Len(t) = n - 1}, x \in S}

VARIABLES
    effects,     \* the caller's list of EffectSize
    measure,     \* the effect measure of the collection
    call,        \* the last call made: its name and arguments, or None
    ret,         \* what the last call returned or raised, or None
    fixedRet,    \* outcome of the last fixed-effect pooling of the collection
    randomRet    \* outcome of the last random-effects pooling of the collection

poolVars == <<effects, measure, call, ret, fixedRet, randomRet>>

PoolInit ==
    /\ effects \in SeqsUpTo(StudyInputs, MaxStudies)
    /\ measure \in EffectMeasure
    /\ call = None
    /\ ret = None
    /\ fixedRet = None
    /\ randomRet = None

\* MetaAnalysis.fixed_effects(effects, log_scale)
FixedEffects ==
    \E r \in {fixed_effects(effects, LogScale(measure))} :
        /\ effects' = r.effects
        /\ call' = Some([op |-> "fixed_effects", log_scale |-> LogScale(measure)])
        /\ ret' = Some(r.out)
        /\ fixedRet' = Some(r.out)
        /\ UNCHANGED <<measure, randomRet>>

\* MetaAnalysis.random_effects(effects, log_scale)
RandomEffects ==
    \E r \in {random_effects(effects, LogScale(measure))} :
        /\ effects' = r.effects
        /\ call' = Some([op |-> "random_effects", log_scale |-> LogScale(measure)])
        /\ ret' = Some(r.out)
        /\ randomRet' = Some(r.out)
        /\ UNCHANGED <<measure, fixedRet>>

\* The arguments a caller passes to pool: a method and the measure of the collection,
\* or neither when the collection holds mean differences.
PoolArgs(effect_measure) ==
    {[method |-> m, effect_measure |-> effect_measure] : m \in PoolingMethod}
    \cup (IF effect_measure = DefaultEffectMeasure
          THEN {[method |-> Omitted, effect_measure |-> Omitted]}
          ELSE {})

\* MetaAnalysis.pool(effects, method, effect_measure)
Pool ==
    \E args \in PoolArgs(measure) :
        \E r \in {pool(effects, args.method, args.effect_measure)} :
            /\ effects' = r.effects
            /\ call' = Some([op |-> "pool", method |-> ArgOrDefault(args.method, DefaultMethod),
                             effect_measure |-> ArgOrDefault(args.effect_measure,
                                                             DefaultEffectMeasure),
                             method_arg |-> args.method,
                             effect_measure_arg |-> args.effect_measure])
            /\ ret' = Some(r.out)
            /\ fixedRet' = IF ArgOrDefault(args.method, DefaultMethod) = "fixed"
                           THEN Some(r.out) ELSE fixedRet
            /\ randomRet' = IF ArgOrDefault(args.method, DefaultMethod) = "fixed"
                            THEN randomRet ELSE Some(r.out)
            /\ UNCHANGED measure

\* The pooling state before any collection exists.
PoolIdle ==
    /\ effects = <<>>
    /\ measure = "MD"
    /\ call = None
    /\ ret = None
    /\ fixedRet = None
    /\ randomRet = None

----------------------------------------------------------------------------
(* The calculators: a caller holds the raw summary data of one two-arm     *)
(* study and derives effect sizes from it.                                 *)

\* Raw inputs, valid and invalid: sample sizes <= 0, n1 + n2 = 2, negative
\* counts, events > total.  (Standard deviations are positive and n1 # -n2, so
\* that numpy never divides by a float zero.)
MeanInputs == {FromRat(-1, 2), FromInt(1), FromRat(5, 2)}
SdInputs == {FromInt(1), FromRat(3, 2)}
SizeInputs == {-3, 0, 1, 2, 4}
EventInputs == {-1, 0, 1, 2, 3}
TotalInputs == {-1, 0, 2, 3}

ContinuousData ==
    [kind : {"continuous"}, mean1 : MeanInputs, sd1 : SdInputs, n1 : SizeInputs,
     mean2 : {FromInt(1)}, sd2 : SdInputs, n2 : SizeInputs]

BinaryData ==
    [kind : {"binary"}, events1 : EventInputs, total1 : TotalInputs,
     events2 : EventInputs, total2 : TotalInputs]

VARIABLES
    raw,         \* the raw two-arm summary data the caller holds, or None
    calcCall,    \* name of the last calculator called, or None
    calcRet      \* what it returned or raised, or None

calcVars == <<raw, calcCall, calcRet>>

CalcIdle ==
    /\ raw = None
    /\ calcCall = None
    /\ calcRet = None

CalcInit ==
    /\ raw \in {Some(x) : x \in ContinuousData \cup BinaryData}
    /\ calcCall = None
    /\ calcRet = None

CalculateMeanDifference ==
    /\ raw # None /\ raw[1].kind = "continuous"
    /\ calcCall' = Some("calculate_mean_difference")
    /\ calcRet' = Some(calculate_mean_difference(raw[1].mean1, raw[1].sd1, raw[1].n1,
                                                 raw[1].mean2, raw[1].sd2, raw[1].n2))
    /\ UNCHANGED raw

CalculateStandardizedMeanDifference ==
    /\ raw # None /\ raw[1].kind = "continuous"
    /\ calcCall' = Some("calculate_standardized_mean_difference")
    /\ calcRet' = Some(calculate_standardized_mean_difference(raw[1].mean1, raw[1].sd1, raw[1].n1,
                                                              raw[1].mean2, raw[1].sd2, raw[1].n2))
    /\ UNCHANGED raw

CalculateOddsRatio ==
    /\ raw # None /\ raw[1].kind = "binary"
    /\ calcCall' = Some("calculate_odds_ratio")
    /\ calcRet' = Some(calculate_odds_ratio(raw[1].events1, raw[1].total1,
                                            raw[1].events2, raw[1].total2))
    /\ UNCHANGED raw

CalculateRiskRatio ==
    /\ raw # None /\ raw[1].kind = "binary"
    /\ calcCall' = Some("calculate_risk_ratio")
    /\ calcRet' = Some(calculate_risk_ratio(raw[1].events1, raw[1].total1,
                                            raw[1].events2, raw[1].total2))
    /\ UNCHANGED raw

----------------------------------------------------------------------------
(* Pooling calls running in parallel.  EffectSize objects live on a heap;  *)
(* a collection is a list of references to them.  A call computes on its   *)
(* own locals and touches the heap only to read effect and se and to write *)
(* one weight per step of its assignment loops.                            *)

Threads == {1, 2}

\* The EffectSize objects of the heap as their callers built them.
HeapStudies ==
    <<MakeEffect(FromInt(5), FromRat(1, 2)),
      MakeEffect(FromRat(7, 4), FromRat(3, 4)),
      MakeEffect(FromInt(1), FromRat(1, 2)),
      MakeEffect(FromRat(5, 2), FromRat(3, 4))>>

\* The collections each caller may pass: disjoint ones, a pair sharing object 2 and
\* the same list of objects for both callers.
Collections ==
    <<{<<>>, <<1>>, <<1, 2>>},
      {<<3>>, <<3, 4>>, <<2, 3>>, <<1, 2>>}>>

\* The ids of the objects on the heap.
Objects == DOMAIN HeapStudies

VARIABLES
    heap,        \* object id -> EffectSize
    frames       \* thread -> the locals of its pooling call

concVars == <<heap, frames>>

\* The list of EffectSize a collection refers to, as the heap holds them now.
ReadEffects(h, coll) == [i \in 1 .. Len(coll) |-> h[coll[i]]]

\* Mutant: the percentages are paired with the studies in reverse order.
PendingWeightsMut(r) ==
    [i \in 1 .. Len(r.effects) |-> r.effects[Len(r.effects) - i + 1].weight[1]]

\* The percentages a pooling pass has computed for its assignment loop.
PendingWeights(r) == [i \in 1 .. Len(r.effects) |-> r.effects[i].weight[1]]

\* Mutant: the loop writes to the object whose id is the loop index.
WeightTargetMut(coll, i) == i

\* for effect, weight in zip(effects, weights): the object the i-th weight goes to.
WeightTarget(coll, i) == coll[i]

\* The locals of a call that has not started.
Frame(coll, method, log_scale) ==
    [coll |-> coll, method |-> method, log_scale |-> log_scale, pc |-> "call",
     i |-> 0, pending |-> <<>>, result |-> None, out |-> None]

ConcInit ==
    /\ heap = [id \in Objects |-> HeapStudies[id]]
    /\ frames \in {[t \in Threads |-> Frame(c[t], m[t], l[t])] :
                       c \in {x \in [Threads -> UNION {Collections[t] : t \in Threads}] :
                                  \A t \in Threads : x[t] \in Collections[t]},
                       m \in [Threads -> PoolingMethod],
                       l \in [Threads -> BOOLEAN]}

\* No parallel calls.
ConcIdle ==
    /\ heap = <<>>
    /\ frames = <<>>

\* The frame after a pass has computed: an exception ends the call, a result starts
\* the assignment loop named by pc.
AfterPass(frame, r, pc) ==
    IF r.out.status = "raise"
    THEN [frame EXCEPT !.pc = "done", !.out = Some(r.out)]
    ELSE [frame EXCEPT !.pc = pc, !.i = 1, !.pending = PendingWeights(r),
                       !.result = Some(r.out)]

\* Entry of fixed_effects or random_effects up to the first assignment loop:
\* random_effects checks for no effects and runs the fixed-effect pass.
ConcCall(t) ==
    /\ frames[t].pc = "call"
    /\ \E r \in {fixed_effects(ReadEffects(heap, frames[t].coll), frames[t].log_scale)} :
           frames' = [frames EXCEPT ![t] = AfterPass(frames[t], r, "fixed_weights")]
    /\ UNCHANGED heap

\* One iteration of an assignment loop: effect.weight = weight / total_weight * 100.
ConcAssignWeight(t) ==
    /\ frames[t].pc \in {"fixed_weights", "random_weights"}
    /\ frames[t].i <= Len(frames[t].coll)
    /\ heap' = [heap EXCEPT ![WeightTarget(frames[t].coll, frames[t].i)].weight =
                                Some(frames[t].pending[frames[t].i])]
    /\ frames' = [frames EXCEPT ![t].i = frames[t].i + 1]

\* random_effects after its fixed-effect pass has returned, up to its own loop.
ConcRandomPass(t) ==
    /\ frames[t].pc = "fixed_weights"
    /\ frames[t].i > Len(frames[t].coll)
    /\ frames[t].method = "random"
    /\ \E r \in {RandomFromFixed([out |-> frames[t].result[1],
                                   effects |-> ReadEffects(heap, frames[t].coll)],
                                  frames[t].log_scale)} :
           frames' = [frames EXCEPT ![t] = AfterPass(frames[t], r, "random_weights")]
    /\ UNCHANGED heap

\* return PooledEffect(...) of the call's own method.
ConcReturn(t) ==
    /\ frames[t].i > Len(frames[t].coll)
    /\ \/ frames[t].pc = "fixed_weights" /\ frames[t].method = "fixed"
       \/ frames[t].pc = "random_weights"
    /\ frames' = [frames EXCEPT ![t].pc = "done", ![t].out = frames[t].result]
    /\ UNCHANGED heap

----------------------------------------------------------------------------
(* Forest plots.  A caller holds the studies and the pooled effect of one  *)
(* analysis, creates figures from them and saves figures to a path.  A     *)
(* figure is kept as the layout create computes: the rows and the axis     *)
(* limits handed to the plotting backend.  pyplot keeps every figure it    *)
(* has made in a registry until the figure is closed.                      *)

MaxFigures == 2

\* The constants of the padding.
C110 == FromRat(11, 10)
C090 == FromRat(9, 10)
C080 == FromRat(8, 10)
C120 == FromRat(12, 10)
C001 == FromRat(1, 100)

\* min(xs) and max(xs) of a non-empty list of floats.
RECURSIVE FMinUpTo(_, _)
FMinUpTo(xs, n) ==
    IF n = 1 THEN xs[1]
    ELSE IF FLt(xs[n], FMinUpTo(xs, n - 1)) THEN xs[n] ELSE FMinUpTo(xs, n - 1)

RECURSIVE FMaxUpTo(_, _)
FMaxUpTo(xs, n) ==
    IF n = 1 THEN xs[1]
    ELSE IF FGt(xs[n], FMaxUpTo(xs, n - 1)) THEN xs[n] ELSE FMaxUpTo(xs, n - 1)

FMin(xs) == FMinUpTo(xs, Len(xs))
FMax(xs) == FMaxUpTo(xs, Len(xs))

\* Mutant: the rows count up from the bottom.
YPositionsMut(n_studies) == [i \in 1 .. n_studies |-> i]

\* y_positions = list(range(n_studies, 0, -1))
YPositions(n_studies) == [i \in 1 .. n_studies |-> n_studies - i + 1]

\* all_ci_lower and all_ci_upper: the bounds of the studies, then of the pooled effect.
AllCILower(studies, pooled) ==
    Append([i \in 1 .. Len(studies) |-> studies[i].ci_lower], pooled.ci_lower)
AllCIUpper(studies, pooled) ==
    Append([i \in 1 .. Len(studies) |-> studies[i].ci_upper], pooled.ci_upper)

\* x_min and x_max of a linear axis.
LinearLimits(lo, hi) ==
    [x_min |-> IF FLt(lo, Zero) THEN FMul(lo, C110) ELSE FMul(lo, C090),
     x_max |-> FMul(hi, C110)]

\* x_min and x_max of the log axis of a ratio measure.
RatioLimits(lo, hi) ==
    [x_min |-> FMax(<<C001, FMul(lo, C080)>>),
     x_max |-> FMul(hi, C120)]

\* The limits passed to set_xlim, from the smallest lower and the largest upper bound.
XLimits(lo, hi, effect_measure) ==
    IF effect_measure \in {"OR", "RR"} THEN RatioLimits(lo, hi) ELSE LinearLimits(lo, hi)

\* ForestPlot.create: the layout of the figure it returns.
create(studies, pooled, effect_measure) ==
    [kind     |-> "forest",
     rows     |-> YPositions(Len(studies)),
     y_pooled |-> 0,
     xscale   |-> IF effect_measure \in {"OR", "RR"} THEN "log" ELSE "linear",
     xlim     |-> XLimits(FMin(AllCILower(studies, pooled)),
                          FMax(AllCIUpper(studies, pooled)), effect_measure),
     ylim     |-> <<-1, Len(studies) + 1>>]

\* create_comparison_forest_plot: one diamond per analysis; min() of no analyses raises.
create_comparison_forest_plot(pooled_list, effect_measure) ==
    IF Len(pooled_list) = 0
    THEN Raise("ValueError", "min() arg is an empty sequence")
    ELSE Return([kind     |-> "comparison",
                 rows     |-> YPositions(Len(pooled_list)),
                 y_pooled |-> 0,
                 xscale   |-> IF effect_measure \in {"OR", "RR"} THEN "log" ELSE "linear",
                 xlim     |-> XLimits(FMin([i \in 1 .. Len(pooled_list) |->
                                                pooled_list[i].ci_lower]),
                                      FMax([i \in 1 .. Len(pooled_list) |->
                                                pooled_list[i].ci_upper]),
                                      effect_measure),
                 ylim     |-> <<0, Len(pooled_list) + 1>>])

\* A study or a pooled effect as the plot reads it.
PlotEffect(ci_lower, effect, ci_upper) ==
    EffectSize(effect, FDiv(FSub(ci_upper, ci_lower), FMul(FromInt(2), Z95)), ci_lower, ci_upper)

\* What is plotted: an interval below zero, the interval [0, 0], a tiny interval of
\* zero width and an ordinary positive one.
PlotInputs ==
    << PlotEffect(FromInt(-2), FromRat(-3, 2), FromInt(-1)),
       PlotEffect(Zero, Zero, Zero),
       PlotEffect(FromRat(1, 256), FromRat(1, 256), FromRat(1, 256)),
       PlotEffect(FromInt(1), FromInt(2), FromInt(3)) >>

\* The lists of studies a caller plots, as indices into PlotInputs.
PlotCollections ==
    {<<>>, <<1>>, <<2>>, <<3>>, <<4>>, <<1, 4>>, <<3, 3>>, <<4, 3, 1>>}

\* What the file system does to a save: nothing, or it fails the mkdir or the write.
SaveOutcomes == {"ok", "mkdir_raises", "savefig_raises"}

VARIABLES
    plotIn,      \* the caller's effects, pooled effect and effect measure, or None
    figures,     \* the figures created so far, in order: their layouts
    openFigs,    \* indices of the figures pyplot still holds
    disk,        \* whether the output directory and the output file exist
    plotCall,    \* the last plotting call, or None
    plotRet      \* what it returned or raised, or None

plotVars == <<plotIn, figures, openFigs, disk, plotCall, plotRet>>

PlotInit ==
    /\ plotIn \in {Some([effects |-> [i \in 1 .. Len(c) |-> PlotInputs[c[i]]],
                           pooled |-> PlotInputs[p], effect_measure |-> m]) :
                      c \in PlotCollections, p \in DOMAIN PlotInputs, m \in EffectMeasure}
    /\ figures = <<>>
    /\ openFigs = {}
    /\ disk = [dir |-> FALSE, file |-> FALSE]
    /\ plotCall = None
    /\ plotRet = None

\* No plotting.
PlotIdle ==
    /\ plotIn = None
    /\ figures = <<>>
    /\ openFigs = {}
    /\ disk = [dir |-> FALSE, file |-> FALSE]
    /\ plotCall = None
    /\ plotRet = None

\* ForestPlot(effect_measure).create(effects, pooled)
PlotCreate ==
    /\ plotIn # None /\ Len(figures) < MaxFigures
    /\ figures' = Append(figures, create(plotIn[1].effects, plotIn[1].pooled,
                                         plotIn[1].effect_measure))
    /\ openFigs' = openFigs \cup {Len(figures) + 1}
    /\ plotCall' = Some([op |-> "create"])
    /\ plotRet' = Some(Return(Len(figures) + 1))
    /\ UNCHANGED <<plotIn, disk>>

\* create_comparison_forest_plot(effects_list, pooled_list, labels): the analysis is
\* compared with itself, or nothing is compared.
PlotCreateComparison ==
    /\ plotIn # None /\ Len(figures) < MaxFigures
    /\ \E pooled_list \in {<<>>, <<plotIn[1].pooled>>, <<plotIn[1].pooled, plotIn[1].pooled>>} :
       \E r \in {create_comparison_forest_plot(pooled_list, plotIn[1].effect_measure)} :
          /\ figures' = Append(figures, IF r.status = "raise" THEN [kind |-> "unfinished"]
                                        ELSE r.value)
          /\ openFigs' = openFigs \cup {Len(figures) + 1}
          /\ plotCall' = Some([op |-> "create_comparison_forest_plot",
                              n_analyses |-> Len(pooled_list)])
          /\ plotRet' = Some(IF r.status = "raise" THEN r ELSE Return(Len(figures) + 1))
    /\ UNCHANGED <<plotIn, disk>>

\* The effect of ForestPlot.save(fig, path) on the disk and on pyplot's registry.
save(fig, outcome, open, d) ==
    IF outcome = "mkdir_raises"
    THEN [out |-> Raise("OSError", "mkdir"), openFigs |-> open, disk |-> d]
    ELSE IF outcome = "savefig_raises"
    THEN [out |-> Raise("OSError", "savefig"), openFigs |-> open,
          disk |-> [d EXCEPT !.dir = TRUE]]
    ELSE [out |-> Return(None), openFigs |-> open \ {fig},
          disk |-> [dir |-> TRUE, file |-> TRUE]]

\* ForestPlot.save(fig, path, dpi) on a figure the caller holds.
PlotSave ==
    /\ \E fig \in 1 .. Len(figures), outcome \in SaveOutcomes :
          /\ figures[fig].kind # "unfinished"
          /\ \E r \in {save(fig, outcome, openFigs, disk)} :
                /\ openFigs' = r.openFigs
                /\ disk' = r.disk
                /\ plotCall' = Some([op |-> "save", fig |-> fig])
                /\ plotRet' = Some(r.out)
    /\ UNCHANGED <<plotIn, figures>>

\* ForestPlot.create_and_save(effects, pooled, output_path)
PlotCreateAndSave ==
    /\ plotIn # None /\ Len(figures) < MaxFigures
    /\ figures' = Append(figures, create(plotIn[1].effects, plotIn[1].pooled,
                                         plotIn[1].effect_measure))
    /\ \E outcome \in SaveOutcomes :
       \E r \in {save(Len(figures) + 1, outcome, openFigs \cup {Len(figures) + 1}, disk)} :
          /\ openFigs' = r.openFigs
          /\ disk' = r.disk
          /\ plotCall' = Some([op |-> "create_and_save", fig |-> Len(figures) + 1])
          /\ plotRet' = Some(r.out)
    /\ UNCHANGED plotIn

----------------------------------------------------------------------------
(* One analysis as the command line runs it: the studies are built with    *)
(* all their fields, pooled with either method any number of times, and    *)
(* the collection is plotted with the last pooled effect.                  *)

\* EffectSize(study_id=..., study_name=..., effect=..., ...): n_total keeps its default.
FullEffectSize(study_id, study_name, e) ==
    [study_id |-> study_id, study_name |-> study_name, n_total |-> None] @@ e

\* The studies of the analysis: two ordinary ones, one with effect <= 0, one with se = 0.
AnalysisStudies ==
    << FullEffectSize(11, "Abel 2019", MakeEffect(FromInt(5), FromRat(1, 2))),
       FullEffectSize(12, "Baker 2020", MakeEffect(FromRat(7, 4), FromRat(3, 4))),
       FullEffectSize(13, "Unknown ", MakeEffect(FromInt(-1), FromRat(1, 2))),
       FullEffectSize(0, "Dunn 2021", MakeEffect(FromInt(1), Zero)) >>

\* The lists of studies analysed, as indices into AnalysisStudies.
AnalysisCollections == {<<>>, <<1>>, <<1, 2>>, <<2, 1, 3>>, <<1, 4>>}

AnalysisInit ==
    /\ effects \in {[i \in 1 .. Len(c) |-> AnalysisStudies[c[i]]] : c \in AnalysisCollections}
    /\ measure \in EffectMeasure
    /\ call = None
    /\ ret = None
    /\ fixedRet = None
    /\ randomRet = None

\* Mutant: create sorts the list it is given, largest effect last.
AnalysisCreateMut ==
    /\ ret # None /\ ret[1].status = "return"
    /\ Len(figures) < MaxFigures
    /\ figures' = Append(figures, create(effects, ret[1].value, measure))
    /\ openFigs' = openFigs \cup {Len(figures) + 1}
    /\ plotCall' = Some([op |-> "create"])
    /\ plotRet' = Some(Return(Len(figures) + 1))
    /\ effects' = [i \in 1 .. Len(effects) |-> effects[Len(effects) - i + 1]]
    /\ UNCHANGED <<plotIn, disk, measure, call, ret, fixedRet, randomRet>>

\* ForestPlot(effect_measure).create(effects, pooled) with the last pooled effect.
AnalysisCreate ==
    /\ ret # None /\ ret[1].status = "return"
    /\ Len(figures) < MaxFigures
    /\ figures' = Append(figures, create(effects, ret[1].value, measure))
    /\ openFigs' = openFigs \cup {Len(figures) + 1}
    /\ plotCall' = Some([op |-> "create"])
    /\ plotRet' = Some(Return(Len(figures) + 1))
    /\ UNCHANGED <<plotIn, disk, poolVars>>

----------------------------------------------------------------------------
(* Multi-reviewer screening of one citation.  screen walks through the     *)
(* primary reviewers, asking each one's model, and asks the tiebreaker     *)
(* when they disagree.  What a model answers is the environment's choice.  *)

ScreeningDecision == {"include", "exclude", "uncertain"}

\* What asking one reviewer can do: the prompt cannot be built (an unknown template:
\* the exception leaves screen), the model call raises, or the answer parses to a
\* decision.
ReviewerOutcomes == ScreeningDecision \cup {"raises", "prompt_error"}

ReviewerConfig(name, role) == [name |-> name, role |-> role]

\* The reviewer lists of the protocols screened with: no reviewer, a tiebreaker only,
\* one to three primaries, with and without a tiebreaker, a tiebreaker listed first,
\* two tiebreakers and a reviewer with another role.
Protocols ==
    { <<>>,
      <<ReviewerConfig("tiebreaker", "tiebreaker")>>,
      <<ReviewerConfig("screener-1", "primary")>>,
      <<ReviewerConfig("screener-1", "primary"), ReviewerConfig("screener-2", "primary")>>,
      <<ReviewerConfig("screener-1", "primary"), ReviewerConfig("screener-2", "primary"),
        ReviewerConfig("tiebreaker", "tiebreaker")>>,
      <<ReviewerConfig("tiebreaker", "tiebreaker"), ReviewerConfig("screener-1", "primary"),
        ReviewerConfig("observer", "secondary"), ReviewerConfig("screener-2", "primary"),
        ReviewerConfig("tiebreaker-2", "tiebreaker")>>,
      <<ReviewerConfig("screener-1", "primary"), ReviewerConfig("screener-2", "primary"),
        ReviewerConfig("screener-3", "primary"), ReviewerConfig("tiebreaker", "tiebreaker")>> }

IsPrimary(r) == r.role = "primary"
IsTiebreaker(r) == r.role = "tiebreaker"

\* ReviewProtocol.get_primary_reviewers
get_primary_reviewers(reviewers) == SelectSeq(reviewers, IsPrimary)

\* ReviewProtocol.get_tiebreaker: the first tiebreaker, or None.
get_tiebreaker(reviewers) ==
    IF SelectSeq(reviewers, IsTiebreaker) = <<>> THEN None
    ELSE Some(SelectSeq(reviewers, IsTiebreaker)[1])

\* The decision of the ScreeningResult _screen_with_reviewer returns.
DecisionOf(outcome) == IF outcome = "raises" THEN "uncertain" ELSE outcome

\* _screen_with_reviewer's ScreeningResult.
ScreeningResult(reviewer, outcome) ==
    [reviewer_name |-> reviewer.name, decision |-> DecisionOf(outcome)]

\* Mutant: only the first and the last decision are compared.
UnanimousMut(decisions) == decisions[1] = decisions[Len(decisions)]

\* len(set(decisions)) == 1
Unanimous(decisions) == Cardinality({decisions[i] : i \in 1 .. Len(decisions)}) = 1

\* The MultiReviewerScreeningResult screen returns.
MultiReviewerScreeningResult(reviewer_results, consensus, required, tiebreaker_result) ==
    [reviewer_results    |-> reviewer_results,
     consensus_decision  |-> consensus,
     required_tiebreaker |-> required,
     tiebreaker_result   |-> tiebreaker_result]

VARIABLES
    reviewers,   \* protocol.reviewers, or None
    screenPc,    \* where screen stands: "idle", "primaries", "consensus", "tiebreaker", "done"
    results,     \* the ScreeningResults of the primaries asked so far
    queryLog,    \* the model calls made so far: reviewer name and what the call did
    screenRet    \* what screen returned or raised, or None

screenVars == <<reviewers, screenPc, results, queryLog, screenRet>>

ScreenInit ==
    /\ reviewers \in {Some(p) : p \in Protocols}
    /\ screenPc = "idle"
    /\ results = <<>>
    /\ queryLog = <<>>
    /\ screenRet = None

\* No screening.
ScreenIdle ==
    /\ reviewers = None
    /\ screenPc = "idle"
    /\ results = <<>>
    /\ queryLog = <<>>
    /\ screenRet = None

\* screen up to its loop: no primary reviewers is an error.
ScreenEnter ==
    /\ reviewers # None /\ screenPc = "idle"
    /\ IF get_primary_reviewers(reviewers[1]) = <<>>
       THEN /\ screenPc' = "done"
            /\ screenRet' = Some(Raise("ValueError", "No primary reviewers configured in protocol"))
       ELSE /\ screenPc' = "primaries"
            /\ screenRet' = screenRet
    /\ UNCHANGED <<reviewers, results, queryLog>>

\* One iteration of the loop over the primaries: _screen_with_reviewer(citation, reviewer).
ScreenPrimary ==
    /\ screenPc = "primaries"
    /\ \E outcome \in ReviewerOutcomes :
       \E reviewer \in {get_primary_reviewers(reviewers[1])[Len(results) + 1]} :
          IF outcome = "prompt_error"
          THEN /\ screenPc' = "done"
               /\ screenRet' = Some(Raise("ValueError", "template"))
               /\ UNCHANGED <<results, queryLog>>
          ELSE /\ queryLog' = Append(queryLog, [reviewer_name |-> reviewer.name,
                                                outcome |-> outcome])
               /\ results' = Append(results, ScreeningResult(reviewer, outcome))
               /\ screenPc' = IF Len(results) + 1 = Len(get_primary_reviewers(reviewers[1]))
                              THEN "consensus" ELSE "primaries"
               /\ screenRet' = screenRet
    /\ UNCHANGED reviewers

\* The consensus check after the loop: agreement returns, disagreement without a
\* tiebreaker returns uncertain, disagreement with one goes on to ask it.
ScreenConsensus ==
    /\ screenPc = "consensus"
    /\ \E decisions \in {[i \in 1 .. Len(results) |-> results[i].decision]} :
          IF Unanimous(decisions)
          THEN /\ screenPc' = "done"
               /\ screenRet' = Some(Return(MultiReviewerScreeningResult(
                                               results, decisions[1], FALSE, None)))
          ELSE IF get_tiebreaker(reviewers[1]) = None
          THEN /\ screenPc' = "done"
               /\ screenRet' = Some(Return(MultiReviewerScreeningResult(
                                               results, "uncertain", TRUE, None)))
          ELSE /\ screenPc' = "tiebreaker"
               /\ screenRet' = screenRet
    /\ UNCHANGED <<reviewers, results, queryLog>>

\* _screen_with_reviewer(citation, tiebreaker) and the return that follows it.
ScreenTiebreaker ==
    /\ screenPc = "tiebreaker"
    /\ \E outcome \in ReviewerOutcomes :
       \E reviewer \in {get_tiebreaker(reviewers[1])[1]} :
          IF outcome = "prompt_error"
          THEN /\ screenRet' = Some(Raise("ValueError", "template"))
               /\ UNCHANGED queryLog
          ELSE /\ queryLog' = Append(queryLog, [reviewer_name |-> reviewer.name,
                                                outcome |-> outcome])
               /\ screenRet' = Some(Return(MultiReviewerScreeningResult(
                                               results, DecisionOf(outcome), TRUE,
                                               Some(ScreeningResult(reviewer, outcome)))))
    /\ screenPc' = "done"
    /\ UNCHANGED <<reviewers, results>>

----------------------------------------------------------------------------
(* Specifications.                                                         *)

vars == <<effects, measure, call, ret, fixedRet, randomRet, raw, calcCall, calcRet, heap, frames,
          plotIn, figures, openFigs, disk, plotCall, plotRet,
          reviewers, screenPc, results, queryLog, screenRet>>

\* Pooling of a collection.
Init == PoolInit /\ CalcIdle /\ ConcIdle /\ PlotIdle /\ ScreenIdle

Next ==
    \/ FixedEffects /\ UNCHANGED <<calcVars, concVars, plotVars, screenVars>>
    \/ RandomEffects /\ UNCHANGED <<calcVars, concVars, plotVars, screenVars>>
    \/ Pool /\ UNCHANGED <<calcVars, concVars, plotVars, screenVars>>

Spec == Init /\ [][Next]_vars

\* The effect calculators on one study's raw data.
InitCalc == PoolIdle /\ CalcInit /\ ConcIdle /\ PlotIdle /\ ScreenIdle

NextCalc ==
    \/ CalculateMeanDifference /\ UNCHANGED <<poolVars, concVars, plotVars, screenVars>>
    \/ CalculateStandardizedMeanDifference /\ UNCHANGED <<poolVars, concVars, plotVars, screenVars>>
    \/ CalculateOddsRatio /\ UNCHANGED <<poolVars, concVars, plotVars, screenVars>>
    \/ CalculateRiskRatio /\ UNCHANGED <<poolVars, concVars, plotVars, screenVars>>

SpecCalc == InitCalc /\ [][NextCalc]_vars

\* Two pooling calls running in parallel, one step of one call at a time.
InitConc == PoolIdle /\ CalcIdle /\ ConcInit /\ PlotIdle /\ ScreenIdle

NextConc ==
    \/ \E t \in Threads : ConcCall(t) /\ UNCHANGED <<poolVars, calcVars, plotVars, screenVars>>
    \/ \E t \in Threads : ConcAssignWeight(t) /\ UNCHANGED <<poolVars, calcVars, plotVars, screenVars>>
    \/ \E t \in Threads : ConcRandomPass(t) /\ UNCHANGED <<poolVars, calcVars, plotVars, screenVars>>
    \/ \E t \in Threads : ConcReturn(t) /\ UNCHANGED <<poolVars, calcVars, plotVars, screenVars>>

SpecConc == InitConc /\ [][NextConc]_vars

\* Plotting and saving the figures of one analysis.
InitPlot == PoolIdle /\ CalcIdle /\ ConcIdle /\ PlotInit /\ ScreenIdle

NextPlot ==
    \/ PlotCreate /\ UNCHANGED <<poolVars, calcVars, concVars, screenVars>>
    \/ PlotCreateComparison /\ UNCHANGED <<poolVars, calcVars, concVars, screenVars>>
    \/ PlotSave /\ UNCHANGED <<poolVars, calcVars, concVars, screenVars>>
    \/ PlotCreateAndSave /\ UNCHANGED <<poolVars, calcVars, concVars, screenVars>>

SpecPlot == InitPlot /\ [][NextPlot]_vars

\* Pooling and plotting one collection.
InitAnalysis == AnalysisInit /\ CalcIdle /\ ConcIdle /\ PlotIdle /\ ScreenIdle

NextAnalysis ==
    \/ FixedEffects /\ UNCHANGED <<calcVars, concVars, plotVars, screenVars>>
    \/ RandomEffects /\ UNCHANGED <<calcVars, concVars, plotVars, screenVars>>
    \/ Pool /\ UNCHANGED <<calcVars, concVars, plotVars, screenVars>>
    \/ AnalysisCreate /\ UNCHANGED <<calcVars, concVars, screenVars>>

SpecAnalysis == InitAnalysis /\ [][NextAnalysis]_vars

\* Screening one citation with the reviewers of a protocol.
InitScreen == PoolIdle /\ CalcIdle /\ ConcIdle /\ PlotIdle /\ ScreenInit

NextScreen ==
    \/ ScreenEnter /\ UNCHANGED <<poolVars, calcVars, concVars, plotVars>>
    \/ ScreenPrimary /\ UNCHANGED <<poolVars, calcVars, concVars, plotVars>>
    \/ ScreenConsensus /\ UNCHANGED <<poolVars, calcVars, concVars, plotVars>>
    \/ ScreenTiebreaker /\ UNCHANGED <<poolVars, calcVars, concVars, plotVars>>

SpecScreen == InitScreen /\ [][NextScreen]_vars

----------------------------------------------------------------------------
(* Properties.                                                             *)

IsReturn(r) == r # None /\ r[1].status = "return"
IsRaise(r) == r # None /\ r[1].status = "raise"

\* The last call was random-effects pooling, directly or through pool.
LastWasRandom ==
    /\ call # None
    /\ \/ call[1].op = "random_effects"
       \/ call[1].op = "pool" /\ call[1].method = "random"

\* Every study is within the contract: se > 0 and, on the log scale, effect > 0.
ValidStudies ==
    \A i \in 1 .. Len(effects) :
        /\ FGt(effects[i].se, Zero)
        /\ LogScale(measure) => FGt(effects[i].effect, Zero)

AllSePositive == \A i \in 1 .. Len(effects) : FGt(effects[i].se, Zero)

\* Exact (unrounded) arithmetic on finite floats: x as the integer x * 2^k.
Scaled(x, k) == x.m * Pow2(x.e + k)

RECURSIVE MinExpUpTo(_, _)
MinExpUpTo(xs, n) ==
    IF n = 0 THEN 0
    ELSE LET rest == MinExpUpTo(xs, n - 1)
         IN  IF xs[n].e < rest THEN xs[n].e ELSE rest

\* A k with x.e + k >= 0 for every x in the sequence xs.
ScaleFor(xs) == -MinExpUpTo(xs, Len(xs))

RECURSIVE ScaledSumUpTo(_, _, _)
ScaledSumUpTo(xs, n, k) ==
    IF n = 0 THEN 0 ELSE ScaledSumUpTo(xs, n - 1, k) + Scaled(xs[n], k)

AssignedWeights == [i \in 1 .. Len(effects) |-> effects[i].weight[1]]

WeightsAssigned == \A i \in 1 .. Len(effects) : effects[i].weight # None

\* The exact sum of the assigned weights is 100.
WeightsSumExactly100 ==
    LET k == ScaleFor(AssignedWeights)
    IN  ScaledSumUpTo(AssignedWeights, Len(effects), k) = 100 * Pow2(k)

\* The exact sum of the assigned weights is within the relative rounding error
\* (N + 2) * 2^-PrecBits of 100.
WeightsSumNear100 ==
    LET k == ScaleFor(AssignedWeights)
        d == ScaledSumUpTo(AssignedWeights, Len(effects), k) - 100 * Pow2(k)
    IN  Abs(d) * MantMax <= 100 * (Len(effects) + 2) * Pow2(k)

\* C1: fixed_effects, random_effects and pool (either method, any measure), called
\* with an empty list, raise ValueError("No effects to pool") and return nothing.
C1_EmptyRaises ==
    (call # None /\ Len(effects) = 0) =>
        /\ IsRaise(ret)
        /\ ret[1].exc = "ValueError"
        /\ ret[1].msg = "No effects to pool"

C1_Witness ==
    /\ Len(effects) = 0
    /\ call # None /\ call[1].op = "pool" /\ call[1].method = "random"
    /\ IsRaise(ret)
    /\ IsRaise(fixedRet)

\* C2 as stated: after a pooling call returns for N >= 1 studies with se > 0, every
\* study has a weight > 0 and the weights sum to exactly 100.
C2_WeightsSumTo100 ==
    (IsReturn(ret) /\ AllSePositive) =>
        /\ WeightsAssigned
        /\ \A i \in 1 .. Len(effects) : FGt(effects[i].weight[1], Zero)
        /\ WeightsSumExactly100

\* C2 amended: after a pooling call returns for N >= 1 studies with se > 0, every
\* study has a weight > 0 and the weights sum to 100 up to floating-point rounding
\* (relative error at most (N + 2) * 2^-p for floats of p significant bits).
C2_WeightsSumNear100 ==
    (IsReturn(ret) /\ AllSePositive) =>
        /\ WeightsAssigned
        /\ \A i \in 1 .. Len(effects) : FGt(effects[i].weight[1], Zero)
        /\ WeightsSumNear100

C2_Witness ==
    /\ IsReturn(ret) /\ AllSePositive
    /\ Len(effects) = MaxStudies
    /\ WeightsAssigned
    /\ ~WeightsSumExactly100
    /\ WeightsSumNear100

\* C3: pooling exactly one valid study (fixed or random, linear or log scale) yields
\* pooled.effect = the study's effect, q_statistic = 0, df = 0, i_squared = 0,
\* n_studies = 1 and weight 100; under random pooling tau_squared = 0.
C3_SingleStudy ==
    (IsReturn(ret) /\ Len(effects) = 1 /\ ValidStudies) =>
        /\ FEq(ret[1].value.effect, effects[1].effect)
        /\ ret[1].value.q_statistic = Zero
        /\ ret[1].value.df = 0
        /\ ret[1].value.i_squared = Zero
        /\ ret[1].value.n_studies = 1
        /\ effects[1].weight = Some(Hundred)
        /\ LastWasRandom => ret[1].value.tau_squared = Some(Zero)

BothPooled == IsReturn(fixedRet) /\ IsReturn(randomRet)

TauPositive == IsReturn(randomRet) /\ FGt(randomRet[1].value.tau_squared[1], Zero)

\* ci_upper - ci_lower of r is >= that of f, compared without rounding.
WidthAtLeast(r, f) ==
    LET k == ScaleFor(<<r.ci_upper, r.ci_lower, f.ci_upper, f.ci_lower>>)
    IN  Scaled(r.ci_upper, k) - Scaled(r.ci_lower, k)
            >= Scaled(f.ci_upper, k) - Scaled(f.ci_lower, k)

HeterogeneityInRange(r) ==
    IsReturn(r) =>
        /\ FGe(r[1].value.i_squared, Zero)
        /\ FLe(r[1].value.i_squared, Hundred)
        /\ FGe(r[1].value.q_statistic, Zero)
        /\ FLe(r[1].value.q_statistic, FromInt(r[1].value.df)) => r[1].value.i_squared = Zero

\* C5: every PooledEffect returned by fixed_effects or random_effects has
\* 0 <= i_squared <= 100 and q_statistic >= 0, and i_squared = 0 whenever Q <= df.
C5_HeterogeneityBounds ==
    /\ HeterogeneityInRange(ret)
    /\ HeterogeneityInRange(fixedRet)
    /\ HeterogeneityInRange(randomRet)

C5_Witness ==
    /\ IsReturn(ret)
    /\ FGt(ret[1].value.q_statistic, Zero)
    /\ FLt(ret[1].value.q_statistic, FromInt(ret[1].value.df))
    /\ ret[1].value.i_squared = Zero

CIOrdered(x) == FLe(x.ci_lower, x.effect) /\ FLe(x.effect, x.ci_upper)

\* C6: every EffectSize returned by the four calculators and every PooledEffect
\* returned by fixed_effects or random_effects has ci_lower <= effect <= ci_upper.
C6_CIOrdered ==
    /\ IsReturn(calcRet) => CIOrdered(calcRet[1].value)
    /\ IsReturn(ret) => CIOrdered(ret[1].value)

\* C7: random_effects returns the q_statistic, df and i_squared that fixed_effects
\* returns for the same studies and scale, with method = random and a non-null
\* tau_squared; fixed_effects returns method = fixed and tau_squared = null.
C7_HeterogeneityCarriedOver ==
    /\ IsReturn(fixedRet) =>
        /\ fixedRet[1].value.method = "fixed"
        /\ fixedRet[1].value.tau_squared = None
    /\ IsReturn(randomRet) =>
        /\ randomRet[1].value.method = "random"
        /\ randomRet[1].value.tau_squared # None
    /\ BothPooled =>
        /\ randomRet[1].value.q_statistic = fixedRet[1].value.q_statistic
        /\ randomRet[1].value.df = fixedRet[1].value.df
        /\ randomRet[1].value.i_squared = fixedRet[1].value.i_squared

C7_Witness ==
    /\ BothPooled
    /\ Len(effects) >= 2
    /\ FGt(randomRet[1].value.q_statistic, Zero)
    /\ FGt(randomRet[1].value.i_squared, Zero)
    /\ TauPositive

\* The weight 100 * w'_i / sum(w') with w'_j = 1 / (se_j^2 + tau^2), as the code rounds it.
RandomWeightOf(i, tau_sq) ==
    LET w == [j \in 1 .. Len(effects) |-> FDiv(FOne, FAdd(FSquare(effects[j].se), tau_sq))]
    IN  FMul(FDiv(w[i], FSum(w)), Hundred)

\* The weight 100 * w_i / sum(w) with w_j = 1 / se_j^2 that the fixed-effect pass writes.
FixedWeightOf(i) ==
    LET w == [j \in 1 .. Len(effects) |-> FDiv(FOne, FSquare(effects[j].se))]
    IN  FMul(FDiv(w[i], FSum(w)), Hundred)

\* C8: when random_effects returns, every study's weight is the random-effects
\* percentage computed from the returned tau_squared, not the weight the inner
\* fixed-effect pass wrote.
C8_RandomWeightsFinal ==
    (LastWasRandom /\ IsReturn(ret)) =>
        \A i \in 1 .. Len(effects) :
            effects[i].weight = Some(RandomWeightOf(i, ret[1].value.tau_squared[1]))

C8_Witness ==
    /\ LastWasRandom /\ IsReturn(ret) /\ IsReturn(fixedRet)
    /\ FGt(ret[1].value.tau_squared[1], Zero)
    /\ \E i \in 1 .. Len(effects) :
          /\ effects[i].weight = Some(RandomWeightOf(i, ret[1].value.tau_squared[1]))
          /\ effects[i].weight # Some(FixedWeightOf(i))

\* C9: pooling a collection that contains a study with se <= 0 raises an error;
\* no PooledEffect is returned and no weight is assigned.
C9_NonPositiveSERejected ==
    (call # None /\ \E i \in 1 .. Len(effects) : FLe(effects[i].se, Zero)) =>
        /\ IsRaise(ret)
        /\ \A i \in 1 .. Len(effects) : effects[i].weight = None

\* The raw data are outside the contract of the calculator that was called.
InvalidRawInput ==
    /\ raw # None /\ calcCall # None
    /\ \/ /\ raw[1].kind = "continuous"
          /\ \/ raw[1].n1 <= 0
             \/ raw[1].n2 <= 0
             \/ /\ calcCall[1] = "calculate_standardized_mean_difference"
                /\ raw[1].n1 + raw[1].n2 = 2
       \/ /\ raw[1].kind = "binary"
          /\ \/ raw[1].events1 < 0 \/ raw[1].total1 < 0
             \/ raw[1].events2 < 0 \/ raw[1].total2 < 0
             \/ raw[1].events1 > raw[1].total1
             \/ raw[1].events2 > raw[1].total2

\* C10: the calculators reject invalid raw inputs (non-positive sample size,
\* n1 + n2 = 2 for SMD, negative count, events > total) with an error instead of
\* returning an EffectSize.
C10_InvalidInputRejected == InvalidRawInput => IsRaise(calcRet)

\* The 2x2 cells with 0.5 added to each, whatever the counts are.
CorrectedCell(count) == FAdd(FromInt(count), Half)

ArmEvents(events, total) ==
    IF events = 0 \/ events = total THEN FAdd(FromInt(events), Half) ELSE FromInt(events)

ArmTotal(events, total) == IF events = 0 \/ events = total THEN total + 1 ELSE total

ArmRisk(events, total) == FDiv(ArmEvents(events, total), FromInt(ArmTotal(events, total)))

\* C12: calculate_risk_ratio corrects each arm independently: an arm's events become
\* events + 0.5 and its total total + 1 exactly when that arm has events = 0 or
\* events = total, otherwise the arm is used unchanged; the other arm plays no part.
\* (A call returns only if both corrected totals are non-zero.)
C12_RRCorrectionPerArm ==
    (calcCall = Some("calculate_risk_ratio") /\ IsReturn(calcRet)) =>
        LET p1 == ArmRisk(raw[1].events1, raw[1].total1)
            p2 == ArmRisk(raw[1].events2, raw[1].total2)
        IN  /\ ArmTotal(raw[1].events1, raw[1].total1) # 0
            /\ ArmTotal(raw[1].events2, raw[1].total2) # 0
            /\ calcRet[1].value.effect = FExp(FLog(FDiv(p1, p2)))
            /\ calcRet[1].value.se =
                   FSqrt(FAdd(FDiv(FSub(FOne, p1), ArmEvents(raw[1].events1, raw[1].total1)),
                              FDiv(FSub(FOne, p2), ArmEvents(raw[1].events2, raw[1].total2))))

\* A zero-event arm next to an arm that needs no correction: 0.5/3 against 1/3.
C12_Witness ==
    /\ calcCall = Some("calculate_risk_ratio") /\ IsReturn(calcRet)
    /\ raw[1].events1 = 0 /\ raw[1].total1 = 2 /\ raw[1].events2 = 1 /\ raw[1].total2 = 3
    /\ calcRet[1].value.effect = FExp(FLog(FDiv(FDiv(Half, FromInt(3)), FDiv(FOne, FromInt(3)))))

\* Raw 2x2 data within the contract: non-negative counts with events <= total.
ValidBinary ==
    /\ raw # None /\ raw[1].kind = "binary"
    /\ 0 <= raw[1].events1 /\ raw[1].events1 <= raw[1].total1
    /\ 0 <= raw[1].events2 /\ raw[1].events2 <= raw[1].total2

\* C13: for non-negative counts with events <= total in each arm (zero-event and
\* all-event arms included), every divisor and logarithm argument of
\* calculate_odds_ratio and calculate_risk_ratio is strictly positive after the
\* correction: the call returns, and effect and ci_lower are > 0.
C13_CorrectedDivisorsPositive ==
    /\ (calcCall = Some("calculate_odds_ratio") /\ ValidBinary) =>
          /\ FGt(CorrectedCell(raw[1].events1), Zero)
          /\ FGt(CorrectedCell(raw[1].total1 - raw[1].events1), Zero)
          /\ FGt(CorrectedCell(raw[1].events2), Zero)
          /\ FGt(CorrectedCell(raw[1].total2 - raw[1].events2), Zero)
    /\ (calcCall = Some("calculate_risk_ratio") /\ ValidBinary) =>
          /\ ArmTotal(raw[1].events1, raw[1].total1) > 0
          /\ ArmTotal(raw[1].events2, raw[1].total2) > 0
          /\ FGt(ArmEvents(raw[1].events1, raw[1].total1), Zero)
          /\ FGt(ArmEvents(raw[1].events2, raw[1].total2), Zero)
          /\ FGt(FDiv(ArmRisk(raw[1].events1, raw[1].total1),
                      ArmRisk(raw[1].events2, raw[1].total2)), Zero)
    /\ (calcCall \in {Some("calculate_odds_ratio"), Some("calculate_risk_ratio")}
            /\ ValidBinary) =>
          /\ IsReturn(calcRet)
          /\ FGt(calcRet[1].value.effect, Zero)
          /\ FGt(calcRet[1].value.ci_lower, Zero)

\* An empty arm (0 events of 0) against an all-event arm, for the risk ratio.
C13_Witness ==
    /\ calcCall = Some("calculate_risk_ratio") /\ ValidBinary
    /\ raw[1].events1 = 0 /\ raw[1].total1 = 0 /\ raw[1].events2 = 3 /\ raw[1].total2 = 3
    /\ IsReturn(calcRet)
    /\ FGt(calcRet[1].value.ci_lower, Zero)

\* Raw continuous data within the contract of calculate_mean_difference.
ValidContinuous ==
    /\ raw # None /\ raw[1].kind = "continuous"
    /\ raw[1].n1 > 0 /\ raw[1].n2 > 0

\* The interval of the returned EffectSize contains v.
CIContains(x, v) == FLe(x.ci_lower, v) /\ FLe(v, x.ci_upper)

\* C14: on valid raw data that are the same in both arms the calculators return the
\* null effect: calculate_odds_ratio and calculate_risk_ratio with events1 = events2
\* and total1 = total2 give effect = 1, calculate_mean_difference with mean1 = mean2
\* gives effect = 0, and the CI contains the null value.
C14_IdenticalArmsNull ==
    /\ (/\ calcCall \in {Some("calculate_odds_ratio"), Some("calculate_risk_ratio")}
        /\ ValidBinary
        /\ raw[1].events1 = raw[1].events2 /\ raw[1].total1 = raw[1].total2) =>
          /\ IsReturn(calcRet)
          /\ calcRet[1].value.effect = FOne
          /\ CIContains(calcRet[1].value, FOne)
    /\ (/\ calcCall = Some("calculate_mean_difference")
        /\ ValidContinuous
        /\ raw[1].mean1 = raw[1].mean2) =>
          /\ IsReturn(calcRet)
          /\ calcRet[1].value.effect = Zero
          /\ CIContains(calcRet[1].value, Zero)

\* Equal arms with a corrected (all-event) risk, and a CI that is a proper interval.
C14_Witness ==
    /\ calcCall = Some("calculate_risk_ratio") /\ ValidBinary
    /\ raw[1].events1 = 2 /\ raw[1].total1 = 2 /\ raw[1].events2 = 2 /\ raw[1].total2 = 2
    /\ IsReturn(calcRet)
    /\ calcRet[1].value.effect = FOne
    /\ FLt(calcRet[1].value.ci_lower, FOne) /\ FLt(FOne, calcRet[1].value.ci_upper)

\* |x| of a float.
FAbs(x) == IF FLt(x, Zero) THEN FNeg(x) ELSE x

\* Cohen's d of the raw data, as calculate_standardized_mean_difference computes it.
CohensD ==
    FDiv(FSub(raw[1].mean1, raw[1].mean2),
         PooledSD(raw[1].sd1, raw[1].n1, raw[1].sd2, raw[1].n2))

\* A returned standardized mean difference of valid data with n1 + n2 > 2 and d # 0.
SMDReturned ==
    /\ calcCall = Some("calculate_standardized_mean_difference")
    /\ ValidContinuous
    /\ raw[1].n1 + raw[1].n2 > 2
    /\ raw[1].mean1 # raw[1].mean2
    /\ IsReturn(calcRet)

\* C15 as stated: for n1 + n2 > 2 the Hedges factor j is strictly below 1 and strictly
\* increasing in n1 + n2, so for the same non-zero d, |g| = |d * j| < |d| and |g| is
\* strictly closer to |d| for the larger total sample size.
C15_HedgesStrictlyIncreasing ==
    SMDReturned =>
        LET j    == HedgesJ(raw[1].n1, raw[1].n2)
            next == HedgesJ(raw[1].n1, raw[1].n2 + 1)
        IN  /\ FLt(j, FOne) /\ FLt(next, FOne)
            /\ FLt(j, next)
            /\ calcRet[1].value.effect = FMul(CohensD, j)
            /\ FLt(FAbs(calcRet[1].value.effect), FAbs(CohensD))
            /\ FLt(FAbs(FMul(CohensD, j)), FAbs(FMul(CohensD, next)))

\* C15 amended: for n1 + n2 > 2 the Hedges factor j is at most 1 and non-decreasing
\* in n1 + n2 (two totals can share one rounded j), so for the same non-zero d,
\* |g| = |d * j| <= |d| and |g| is not farther from |d| for the larger total.
C15_HedgesNonDecreasing ==
    SMDReturned =>
        LET j    == HedgesJ(raw[1].n1, raw[1].n2)
            next == HedgesJ(raw[1].n1, raw[1].n2 + 1)
        IN  /\ FLe(j, FOne) /\ FLe(next, FOne)
            /\ FLe(j, next)
            /\ calcRet[1].value.effect = FMul(CohensD, j)
            /\ FLe(FAbs(calcRet[1].value.effect), FAbs(CohensD))
            /\ FLe(FAbs(FMul(CohensD, j)), FAbs(FMul(CohensD, next)))

\* A total sample size whose j is that of the next total: the correction is applied
\* (|g| < |d|) but does not shrink from one total to the next.
C15_Witness ==
    /\ SMDReturned
    /\ HedgesJ(raw[1].n1, raw[1].n2) = HedgesJ(raw[1].n1, raw[1].n2 + 1)
    /\ FLt(HedgesJ(raw[1].n1, raw[1].n2), FOne)
    /\ FLt(FAbs(calcRet[1].value.effect), FAbs(CohensD))

\* The last call was fixed-effect pooling, directly or through pool.
LastWasFixed ==
    /\ call # None
    /\ \/ call[1].op = "fixed_effects"
       \/ call[1].op = "pool" /\ call[1].method = "fixed"

\* N >= 1 studies that all have the same effect and the same se > 0.
IdenticalStudies ==
    /\ Len(effects) >= 1
    /\ FGt(effects[1].se, Zero)
    /\ \A i \in 1 .. Len(effects) :
          effects[i].effect = effects[1].effect /\ effects[i].se = effects[1].se

\* C16: fixed-effect pooling of N >= 1 studies that all have the same effect and the
\* same se > 0 yields pooled.effect = the common effect, q_statistic = 0,
\* i_squared = 0, and gives every study the weight 100 / N.
C16_IdenticalStudiesPooled ==
    (LastWasFixed /\ IsReturn(ret) /\ IdenticalStudies /\ ValidStudies) =>
        /\ FEq(ret[1].value.effect, effects[1].effect)
        /\ ret[1].value.q_statistic = Zero
        /\ ret[1].value.i_squared = Zero
        /\ \A i \in 1 .. Len(effects) :
              effects[i].weight = Some(FDiv(Hundred, FromInt(Len(effects))))

\* C of the DerSimonian-Laird estimate, from the fixed-effect weights of the studies.
DLScaleOfStudies == DLScale(InverseVarianceWeights(effects))

\* C17: the tau_squared returned by random_effects is never negative: it is
\* (Q - df) / C when C > 0 and Q > df, and 0 in every other case, with Q and df those
\* of the fixed-effect pass and C = sum(w) - sum(w^2) / sum(w) over the fixed weights.
C17_TauSquaredClamped ==
    IsReturn(randomRet) =>
        LET q   == randomRet[1].value.q_statistic
            df  == FromInt(randomRet[1].value.df)
            tau == randomRet[1].value.tau_squared[1]
        IN  /\ FGe(tau, Zero)
            /\ IF FGt(DLScaleOfStudies, Zero) /\ FGt(q, df)
               THEN tau = FDiv(FSub(q, df), DLScaleOfStudies)
               ELSE tau = Zero

\* The clamped case: C > 0 and 0 < Q < df, where (Q - df) / C is negative and tau_squared is 0.
C17_Witness ==
    /\ IsReturn(randomRet)
    /\ Len(effects) >= 2
    /\ FGt(DLScaleOfStudies, Zero)
    /\ FGt(randomRet[1].value.q_statistic, Zero)
    /\ FLt(randomRet[1].value.q_statistic, FromInt(randomRet[1].value.df))
    /\ randomRet[1].value.tau_squared = Some(Zero)

\* Every study has se # 0 and, on the log scale, a positive effect.
PoolableStudies ==
    \A i \in 1 .. Len(effects) :
        /\ ~FEq(effects[i].se, Zero)
        /\ LogScale(measure) => FGt(effects[i].effect, Zero)

\* C18: for a non-empty collection with non-zero se (and positive effects on the log
\* scale) the pooled effect returned by fixed_effects and by random_effects lies
\* between the smallest and the largest study effect.
C18_PooledWithinStudies ==
    (IsReturn(ret) /\ Len(effects) >= 1 /\ PoolableStudies) =>
        /\ \E i \in 1 .. Len(effects) : FLe(effects[i].effect, ret[1].value.effect)
        /\ \E i \in 1 .. Len(effects) : FLe(ret[1].value.effect, effects[i].effect)


\* The last call was pool(effects, ...).
LastWasPool == call # None /\ call[1].op = "pool"

\* C19: pool returns exactly what fixed_effects returns when method = FIXED and what
\* random_effects returns otherwise, called with log_scale = true iff the measure is
\* OR or RR; with both arguments left out it is random-effects pooling on the linear
\* scale.
C19_PoolDispatches ==
    LastWasPool =>
        /\ call[1].method_arg = "fixed" =>
               ret = Some(fixed_effects(effects, call[1].effect_measure_arg \in {"OR", "RR"}).out)
        /\ call[1].method_arg # "fixed" =>
               ret = Some(random_effects(effects, call[1].effect_measure_arg \in {"OR", "RR"}).out)
        /\ (call[1].method_arg = Omitted /\ call[1].effect_measure_arg = Omitted) =>
               ret = Some(random_effects(effects, FALSE).out)

\* pool(effects, FIXED, RR) has returned the fixed-effect result of two or more
\* studies, and it is not what pooling on the linear scale returns.
C19_Witness ==
    /\ LastWasPool /\ IsReturn(ret) /\ Len(effects) >= 2
    /\ call[1].method_arg = "fixed" /\ call[1].effect_measure_arg = "RR"
    /\ ret[1].value.method = "fixed"
    /\ ret # Some(fixed_effects(effects, FALSE).out)


\* The two collections share no EffectSize object.
Disjoint ==
    \A i \in 1 .. Len(frames[1].coll), j \in 1 .. Len(frames[2].coll) :
        frames[1].coll[i] # frames[2].coll[j]

\* What the call of thread t returns and leaves on its collection when it runs alone
\* on the collection as built.
RunAlone(t) ==
    IF frames[t].method = "fixed"
    THEN fixed_effects(ReadEffects(HeapStudies, frames[t].coll), frames[t].log_scale)
    ELSE random_effects(ReadEffects(HeapStudies, frames[t].coll), frames[t].log_scale)

\* A finished call has returned what it returns alone and its collection carries the
\* weights it leaves alone.
SameAsAlone(t) ==
    frames[t].pc = "done" =>
        /\ frames[t].out = Some(RunAlone(t).out)
        /\ ReadEffects(heap, frames[t].coll) = RunAlone(t).effects

\* A step of thread t leaves every object of the other collection as it was.
LeavesOtherAlone(t) ==
    frames'[t] # frames[t] =>
        \A u \in Threads \ {t} : \A i \in 1 .. Len(frames[u].coll) :
            heap'[frames[u].coll[i]] = heap[frames[u].coll[i]]

\* C20: two pooling calls on disjoint collections, interleaved in any order at the
\* granularity of their weight assignments, each return the same PooledEffect and
\* leave the same weights on their own collection as when run alone, and neither
\* call writes to the other's collection.
C20_DisjointCallsIndependent ==
    /\ [](frames # <<>> /\ Disjoint => \A t \in Threads : SameAsAlone(t))
    /\ [][frames # <<>> /\ Disjoint => \A t \in Threads : LeavesOtherAlone(t)]_vars

\* Thread 1 has run a whole random-effects call on two studies while thread 2 stood
\* in the middle of its random-effects assignment loop over two other studies.
C20_Witness ==
    /\ frames # <<>> /\ Disjoint
    /\ frames[1].pc = "done" /\ frames[1].method = "random" /\ IsReturn(frames[1].out)
    /\ Len(frames[1].coll) = 2 /\ Len(frames[2].coll) = 2
    /\ frames[2].pc = "random_weights" /\ frames[2].i = 2
    /\ heap[frames[1].coll[1]].weight # None

\* The same without the precondition: it fails for collections that share an object.
SharedCallsIndependent ==
    frames # <<>> => \A t \in Threads : SameAsAlone(t)


\* The forest plots among the figures created so far.
ForestFigures == {f \in 1 .. Len(figures) : figures[f].kind = "forest"}

\* C21: ForestPlot.create places the i-th input study on row N - i + 1, so the studies
\* occupy the rows N, N-1, ..., 1 in input order, and the pooled diamond on row 0: no
\* study shares a row with another study or with the pooled effect.
C21_RowsInInputOrder ==
    \A f \in ForestFigures :
        /\ Len(figures[f].rows) = Len(plotIn[1].effects)
        /\ \A i \in 1 .. Len(figures[f].rows) :
              figures[f].rows[i] = Len(plotIn[1].effects) - i + 1
        /\ figures[f].y_pooled = 0
        /\ \A i, j \in 1 .. Len(figures[f].rows) :
              i # j => figures[f].rows[i] # figures[f].rows[j]
        /\ \A i \in 1 .. Len(figures[f].rows) : figures[f].rows[i] # figures[f].y_pooled

\* A forest plot of three studies, the last of which has the smallest effect, exists.
C21_Witness ==
    \E f \in ForestFigures :
        /\ Len(figures[f].rows) = 3
        /\ FLt(plotIn[1].effects[3].effect, plotIn[1].effects[1].effect)
        /\ figures[f].rows = <<3, 2, 1>>


\* The figures that were laid out: forest plots and comparison plots.
LaidOut == {f \in 1 .. Len(figures) : figures[f].kind \in {"forest", "comparison"}}

\* C22: the x-axis limits that ForestPlot.create and create_comparison_forest_plot hand
\* to set_xlim satisfy x_min < x_max for every input, also when all CI bounds are equal
\* or all are zero, and for OR and RR both limits are > 0.
C22_XRangeNonDegenerate ==
    \A f \in LaidOut :
        /\ FLt(figures[f].xlim.x_min, figures[f].xlim.x_max)
        /\ figures[f].xscale = "log" =>
               FGt(figures[f].xlim.x_min, Zero) /\ FGt(figures[f].xlim.x_max, Zero)


\* The last call was save or create_and_save.
LastWasSave == plotCall # None /\ plotCall[1].op \in {"save", "create_and_save"}

\* C23: ForestPlot.save and create_and_save close the figure on every exit path, also
\* when creating the directory or writing the file raises: after a save call, successful
\* or failed, the figure passed to it is no longer open.
C23_SaveAlwaysCloses ==
    LastWasSave => plotCall[1].fig \notin openFigs


\* The last call pooled on the log scale.
LastOnLogScale ==
    /\ call # None
    /\ IF call[1].op = "pool" THEN LogScale(call[1].effect_measure) ELSE call[1].log_scale

\* Some study has an effect <= 0; no study has se**2 = 0.
HasNonPositiveEffect == \E i \in 1 .. Len(effects) : ~FGt(effects[i].effect, Zero)
NoZeroVariance == \A i \in 1 .. Len(effects) : FSquare(effects[i].se).m # 0

\* The collection with every effect <= 0 replaced by 1.
AsIfOne(es) ==
    [i \in 1 .. Len(es) |->
        IF FGt(es[i].effect, Zero) THEN es[i] ELSE [es[i] EXCEPT !.effect = FOne]]

\* What the last call's method returns and assigns on collection es, on the log scale.
LastMethodOn(es) ==
    IF LastWasFixed THEN fixed_effects(es, TRUE) ELSE random_effects(es, TRUE)

\* C24: in log-scale pooling a study whose effect is <= 0 is not rejected: the call
\* returns a PooledEffect, every study is assigned a weight, and the result and the
\* weights are those of the collection in which that study's effect is 1 (working
\* value 0, full inverse-variance weight), in the fixed and in the random pass.
C24_NonPositiveEffectPooledAsOne ==
    (LastOnLogScale /\ HasNonPositiveEffect /\ NoZeroVariance) =>
        /\ IsReturn(ret)
        /\ \A i \in 1 .. Len(effects) : effects[i].weight # None
        /\ \A r \in {LastMethodOn(AsIfOne(effects))} :
              /\ ret[1] = r.out
              /\ \A i \in 1 .. Len(effects) : effects[i].weight = r.effects[i].weight

\* A random-effects pooling on the log scale of two or more studies, one of them with
\* an effect <= 0 and one with a positive effect other than 1, has returned.
C24_Witness ==
    /\ LastOnLogScale /\ LastWasRandom /\ HasNonPositiveEffect /\ NoZeroVariance
    /\ IsReturn(ret) /\ Len(effects) >= 2
    /\ \E i \in 1 .. Len(effects) : FGt(effects[i].effect, FOne)


\* Both calls have returned a PooledEffect.
BothReturned ==
    \A t \in Threads : frames[t].pc = "done" /\ IsReturn(frames[t].out)

\* The weights thread t's call alone assigns to object id: one per position of id in
\* its collection.
WeightsAloneFor(t, id) ==
    {RunAlone(t).effects[i].weight :
        i \in {j \in 1 .. Len(frames[t].coll) : frames[t].coll[j] = id}}

\* The weights the first collection's objects carry now.
HeapWeights == [i \in 1 .. Len(frames[1].coll) |-> heap[frames[1].coll[i]].weight[1]]

\* The exact sum of those weights is below 90 or above 110.
HeapWeightsFarFrom100 ==
    \/ ScaledSumUpTo(HeapWeights, Len(HeapWeights), ScaleFor(HeapWeights))
           < 90 * Pow2(ScaleFor(HeapWeights))
    \/ ScaledSumUpTo(HeapWeights, Len(HeapWeights), ScaleFor(HeapWeights))
           > 110 * Pow2(ScaleFor(HeapWeights))

\* C25: when a fixed-effect and a random-effects pooling over the same EffectSize
\* instances interleave their weight assignments, every weight left behind is one that
\* one of the two runs assigns to that study (no other value appears), and a final
\* state is reachable in which the collection holds weights written by different runs
\* and the weights do not sum to 100 (C25_Witness).
C25_WeightsFromEitherRun ==
    (frames # <<>> /\ BothReturned) =>
        \A id \in Objects :
            heap[id].weight = None
            \/ \E t \in Threads : heap[id].weight \in WeightsAloneFor(t, id)

\* A final state of a fixed-effect and a random-effects call over the same two
\* objects: the first carries the weight of one run, the second that of the other run,
\* and the two weights do not sum to 100.
C25_Witness ==
    /\ frames # <<>> /\ BothReturned
    /\ frames[1].coll = frames[2].coll /\ Len(frames[1].coll) = 2
    /\ frames[1].method # frames[2].method
    /\ \E t \in Threads : \E u \in Threads \ {t} :
          /\ heap[frames[1].coll[1]].weight = RunAlone(t).effects[1].weight
          /\ heap[frames[1].coll[1]].weight # RunAlone(u).effects[1].weight
          /\ heap[frames[1].coll[2]].weight = RunAlone(u).effects[2].weight
          /\ heap[frames[1].coll[2]].weight # RunAlone(t).effects[2].weight
    /\ HeapWeightsFarFrom100


\* The forest plots on a linear axis.
LinearForestFigures == {f \in ForestFigures : figures[f].xscale = "linear"}

\* C26: for MD and SMD the padded x-axis range of ForestPlot.create contains every study
\* CI and the pooled CI: x_min <= the smallest ci_lower and x_max >= the largest
\* ci_upper, whatever the signs of the bounds.
C26_LinearRangeContainsCIs ==
    \A f \in LinearForestFigures :
        /\ FLe(figures[f].xlim.x_min, plotIn[1].pooled.ci_lower)
        /\ FGe(figures[f].xlim.x_max, plotIn[1].pooled.ci_upper)
        /\ \A i \in 1 .. Len(plotIn[1].effects) :
              /\ FLe(figures[f].xlim.x_min, plotIn[1].effects[i].ci_lower)
              /\ FGe(figures[f].xlim.x_max, plotIn[1].effects[i].ci_upper)


\* Every field of a study but its weight.
FrameOf(e) ==
    [study_id |-> e.study_id, study_name |-> e.study_name, effect |-> e.effect, se |-> e.se,
     ci_lower |-> e.ci_lower, ci_upper |-> e.ci_upper, n_total |-> e.n_total]

\* C27: the only field of its inputs an engine operation writes is EffectSize.weight,
\* and only pooling writes it: fixed_effects and random_effects leave study_id,
\* study_name, effect, se, ci_lower, ci_upper, n_total and the length and order of the
\* list unchanged, and ForestPlot.create changes nothing in effects or pooled and
\* writes no file.
C27_OnlyWeightsWritten ==
    [][/\ Len(effects') = Len(effects)
       /\ \A i \in 1 .. Len(effects) : FrameOf(effects'[i]) = FrameOf(effects[i])
       /\ figures' # figures =>
              /\ effects' = effects
              /\ ret' = ret /\ fixedRet' = fixedRet /\ randomRet' = randomRet
              /\ disk' = disk]_vars

\* Three studies have been pooled with both methods, carry the weights the last
\* pooling wrote, and have been plotted twice.
C27_Witness ==
    /\ Len(effects) = 3
    /\ \A i \in 1 .. Len(effects) : effects[i].weight # None
    /\ IsReturn(fixedRet) /\ IsReturn(randomRet)
    /\ Len(figures) = 2


\* The collection as built: no study carries a weight.
Unweighted(es) == [i \in 1 .. Len(es) |-> [es[i] EXCEPT !.weight = None]]

\* The last call, made again on collection es.
LastCallOn(es) ==
    IF call[1].op = "fixed_effects" THEN fixed_effects(es, call[1].log_scale)
    ELSE IF call[1].op = "random_effects" THEN random_effects(es, call[1].log_scale)
    ELSE pool(es, call[1].method_arg, call[1].effect_measure_arg)

\* C28: the PooledEffect and the weights of a pooling call do not depend on the weights
\* the inputs carried before the call: after any sequence of calls on a collection the
\* outcome and the weights are those the last call alone gives on the collection as
\* built, and a step that repeats the last call changes neither.
C28_WeightsOfLastCallOnly ==
    /\ [](call # None =>
             \A r \in {LastCallOn(Unweighted(effects))} :
                 ret = Some(r.out) /\ effects = r.effects)
    /\ [][(call # None /\ call' = call) => (effects' = effects /\ ret' = ret)]_vars

\* A random-effects call has returned on two or more studies that a fixed-effect call
\* had weighted before, and the two calls weight the first study differently.
C28_Witness ==
    /\ LastWasRandom /\ IsReturn(ret) /\ IsReturn(fixedRet) /\ Len(effects) >= 2
    /\ effects[1].weight # fixed_effects(effects, LogScale(measure)).effects[1].weight


\* C29: when a pooling call ends in an error (empty list, or a division error caused by
\* a study with se = 0) no weight of any input has been changed, in fixed_effects and
\* in random_effects, whose error is the one its inner fixed-effect pass raises on the
\* same inputs.
C29_ErrorLeavesWeights ==
    [][IsRaise(ret') =>
           /\ effects' = effects
           /\ ret'[1] = fixed_effects(effects, FALSE).out]_vars

\* A random-effects call on two or more studies, one of them with se = 0, has raised
\* the division error.
C29_Witness ==
    /\ LastWasRandom /\ IsRaise(ret) /\ Len(effects) >= 2
    /\ ret[1].exc = "ZeroDivisionError"
    /\ \E i \in 1 .. Len(effects) : FEq(effects[i].se, Zero)
    /\ \E i \in 1 .. Len(effects) : FGt(effects[i].se, Zero)


\* The names of the primary reviewers in protocol order, and of the tiebreaker if any.
PrimaryNames ==
    [i \in 1 .. Len(get_primary_reviewers(reviewers[1])) |->
        get_primary_reviewers(reviewers[1])[i].name]
TiebreakerName ==
    IF get_tiebreaker(reviewers[1]) = None THEN <<>>
    ELSE <<get_tiebreaker(reviewers[1])[1].name>>

\* The decision a logged model call counts as: a call that raised counts as uncertain.
CountsAs(q) == IF q.outcome = "raises" THEN "uncertain" ELSE q.outcome

\* The primaries' decisions, once all of them have been asked.
PrimaryDecisions == [i \in 1 .. Len(PrimaryNames) |-> CountsAs(queryLog[i])]
PrimariesAgree ==
    \A i, j \in 1 .. Len(PrimaryNames) : PrimaryDecisions[i] = PrimaryDecisions[j]

\* The calls made so far are the primaries in protocol order, each once, then at most
\* one call of the tiebreaker.
QueriesInOrder ==
    /\ Len(queryLog) <= Len(PrimaryNames \o TiebreakerName)
    /\ \A i \in 1 .. Len(queryLog) :
          queryLog[i].reviewer_name = (PrimaryNames \o TiebreakerName)[i]

ScreenReturned == screenRet # None /\ screenRet[1].status = "return"

\* C30: screen asks every primary reviewer once and asks the tiebreaker, once and after
\* all primaries, only if the primary decisions are not all equal.  With unanimous
\* primaries the consensus is their decision and required_tiebreaker is false; on
\* disagreement the consensus is the tiebreaker's decision, or uncertain when no
\* tiebreaker is configured, and required_tiebreaker is true.  A reviewer whose call
\* raised counts as uncertain.
C30_TiebreakerOnlyOnDisagreement ==
    reviewers # None =>
        /\ QueriesInOrder
        /\ ScreenReturned =>
              /\ Len(queryLog) >= Len(PrimaryNames)
              /\ Len(screenRet[1].value.reviewer_results) = Len(PrimaryNames)
              /\ \A i \in 1 .. Len(PrimaryNames) :
                    /\ screenRet[1].value.reviewer_results[i].reviewer_name = PrimaryNames[i]
                    /\ screenRet[1].value.reviewer_results[i].decision = PrimaryDecisions[i]
              /\ PrimariesAgree =>
                    /\ Len(queryLog) = Len(PrimaryNames)
                    /\ screenRet[1].value.consensus_decision = PrimaryDecisions[1]
                    /\ screenRet[1].value.required_tiebreaker = FALSE
              /\ ~PrimariesAgree =>
                    /\ screenRet[1].value.required_tiebreaker = TRUE
                    /\ IF TiebreakerName = <<>>
                       THEN /\ Len(queryLog) = Len(PrimaryNames)
                            /\ screenRet[1].value.consensus_decision = "uncertain"
                       ELSE /\ Len(queryLog) = Len(PrimaryNames) + 1
                            /\ screenRet[1].value.consensus_decision =
                                   CountsAs(queryLog[Len(queryLog)])

\* screen has returned for three primaries of which the first and the last agreed and
\* the second one's call raised: the tiebreaker was asked and decided to include.
C30_Witness ==
    /\ reviewers # None /\ ScreenReturned
    /\ Len(PrimaryNames) = 3
    /\ queryLog[1].outcome = "exclude" /\ queryLog[2].outcome = "raises"
    /\ queryLog[3].outcome = "exclude"
    /\ Len(queryLog) = 4 /\ queryLog[4].reviewer_name = "tiebreaker"
    /\ screenRet[1].value.consensus_decision = "include"
====
